---- MODULE Spec2Model ----
(***************************************************************************)
(* NoCEG in-process extractor (src/noceg): the recipe reader, the software *)
(* breakpoint manager, the entry iteration loop, the vectored exception    *)
(* handler and the self-restart coordinator, as one state machine.         *)
(*                                                                         *)
(* One extractor process is modelled in full (the "current" process); the  *)
(* process that spawned it is kept as a summary of where it stands in      *)
(* SelfRestart/RestartApp (variable old).  The recipe file on disk is      *)
(* shared by both.  The host program and the OS are the environment: they  *)
(* execute the code at the addresses of the recipe, deliver exceptions to  *)
(* the vectored handler and decide what happens to an exception the        *)
(* handler declines.                                                       *)
(***************************************************************************)
EXTENDS Integers, Sequences, FiniteSets, TLC

----------------------------------------------------------------------------
(* Bounds of the model *)

\* Number of entries of the recipe's ConstantOrStolen array.
NumEntries == 2

----------------------------------------------------------------------------
(* Hex strings: a string is a sequence of one-character strings *)

HexUpper == <<"0","1","2","3","4","5","6","7","8","9","A","B","C","D","E","F">>
HexLower == <<"0","1","2","3","4","5","6","7","8","9","a","b","c","d","e","f">>

Pow16(k) == IF k = 0 THEN 1 ELSE IF k = 1 THEN 16 ELSE IF k = 2 THEN 256
            ELSE IF k = 3 THEN 4096 ELSE IF k = 4 THEN 65536
            ELSE IF k = 5 THEN 1048576 ELSE IF k = 6 THEN 16777216
            ELSE 268435456

\* Eight hex digits of n, most significant first, with the digits of digs.
Hex8(n, digs) == [k \in 1..8 |-> digs[((n \div Pow16(8 - k)) % 16) + 1]]

\* std::format( "0x{:08X}", eax )
FormatValue(eax) == <<"0", "x">> \o Hex8(eax, HexUpper)

\* The analyzer's "0x" + 8 lowercase hex digits.
FormatAddress(a) == <<"0", "x">> \o Hex8(a, HexLower)

\* The literal "0x00000000" the loop compares Value with.
ZeroValue == <<"0","x","0","0","0","0","0","0","0","0">>

DigitValue(c) ==
    IF \E d \in 1..16 : HexUpper[d] = c
    THEN (CHOOSE d \in 1..16 : HexUpper[d] = c) - 1
    ELSE IF \E d \in 1..16 : HexLower[d] = c
    THEN (CHOOSE d \in 1..16 : HexLower[d] = c) - 1
    ELSE -1

RECURSIVE ParseDigits(_, _, _, _)
\* Digits of s from position i on; -1 when there is no digit at all.
ParseDigits(s, i, acc, seen) ==
    IF i > Len(s) \/ DigitValue(s[i]) < 0
    THEN IF seen THEN acc ELSE -1
    ELSE ParseDigits(s, i + 1, acc * 16 + DigitValue(s[i]), TRUE)

\* std::stoull( s, nullptr, 16 ): an optional 0x prefix, then hex digits;
\* -1 stands for std::invalid_argument.
Stoull16(s) ==
    IF Len(s) >= 3 /\ s[1] = "0" /\ s[2] \in {"x", "X"} /\ DigitValue(s[3]) >= 0
    THEN ParseDigits(s, 3, 0, FALSE)
    ELSE ParseDigits(s, 1, 0, FALSE)

----------------------------------------------------------------------------
(* Addresses and code bytes of the host image *)

Indices == 0..(NumEntries - 1)

\* Per entry i: the call site the analyzer recorded as EIP, the protected
\* stub (the entry's key) and the breakpoint address inside the stub.
EipOf(i)  == 4198400 + 256 * i
FuncOf(i) == EipOf(i) + 16
BpOf(i)   == EipOf(i) + 64

CodeAddrs == UNION {{EipOf(i), FuncOf(i), BpOf(i)} : i \in Indices}

\* Somewhere in the host's own code, away from every recipe address.
HostAddr == 4194304 + 2048 * 4096
\* The address of RestartApp inside the extractor DLL.
RestartAppAddr == HostAddr + 4096
\* Where RaiseException was called from inside ProcessEntry.
RaiseSite == HostAddr + 8192
\* An address that holds no valid code.
BadAddr == HostAddr + 12288

\* int3, the byte SetBreakpoint writes.
INT3 == 204

\* The byte the image holds at a before the extractor touches it.
OrigByte(a) == IF \E i \in Indices : a = EipOf(i) THEN 232
               ELSE IF \E i \in Indices : a = FuncOf(i) THEN 85
               ELSE 139

\* Values a stub leaves in EAX at the breakpoint.
EaxVals == {0, 305441741}

----------------------------------------------------------------------------
(* Exception codes *)

CUSTOM_HANDLED == "0xCEADDEAD"
EXCEPTION_SINGLE_STEP == "0x80000004"
EXCEPTION_BREAKPOINT == "0x80000003"
EXCEPTION_ILLEGAL_INSTRUCTION == "0xC000001D"
EXCEPTION_ACCESS_VIOLATION == "0xC0000005"

\* EntryProcessorManager::m_CustomExceptionCode
m_CustomExceptionCode == "0xDEADDEAD"

----------------------------------------------------------------------------
(* The recipe document (noceg.json) *)

EntryFields == {"Prologue", "EIP", "BP", "Value", "Type"}

\* One element of ConstantOrStolen: { "<func VA>": { Prologue, EIP, BP,
\* Value, Type } }.  shape tells whether the element and its data are JSON
\* objects; has holds the fields that are present with the JSON type the
\* loop asks for (string, or integer for Type).
Entry(shape, key, has, bpStr, eipStr, value, type) ==
    [shape |-> shape, key |-> key, has |-> has, Prologue |-> key,
     EIP |-> eipStr, BP |-> bpStr, Value |-> value, Type |-> type]

\* A well-formed entry for index i.
GoodEntry(i, value, type) ==
    Entry("object", FormatAddress(FuncOf(i)), EntryFields,
          FormatAddress(BpOf(i)), FormatAddress(EipOf(i)), value, type)

\* A value an earlier run captured.
DoneValue == FormatValue(305441741)

\* The Type values tried at index i: 1 and 2 at even indices, 3 and 4 at odd
\* ones.
TypeChoices(i) == IF i % 2 = 0 THEN {1, 2} ELSE {3, 4}

\* Entries a recipe can hold at index i and that the loop accepts.
RegularEntries(i) ==
    {GoodEntry(i, ZeroValue, t) : t \in TypeChoices(i)}
    \cup {GoodEntry(i, DoneValue, 1)}

\* Entries at index i with an invalid field: no Value, a zero BP, a Type
\* outside 1..4.
IrregularEntries(i) ==
    { [GoodEntry(i, ZeroValue, 1) EXCEPT !.has = EntryFields \ {"Value"}],
      [GoodEntry(i, ZeroValue, 1) EXCEPT !.BP = ZeroValue],
      GoodEntry(i, ZeroValue, 5) }

EntryChoices(i) == RegularEntries(i) \cup IrregularEntries(i)

\* Arrays with at most one invalid entry.
EntryArrays ==
    { a \in [Indices -> UNION {EntryChoices(i) : i \in Indices}] :
        /\ \A i \in Indices : a[i] \in EntryChoices(i)
        /\ Cardinality({i \in Indices : a[i] \in IrregularEntries(i)}) <= 1 }

InitAnchor == FormatAddress(4198400 - 4096)
RegisterThreadAnchor == FormatAddress(4198400 - 2048)

TopLevel == {"Init", "RegisterThread", "ConstantOrStolen"}

TerminateAnchor == FormatAddress(4198400 - 1024)

\* The members the extractor never reads: Terminate, Version, Integrity and
\* TestSecret, as the analyzer wrote them.
Recipe(has, initStr, rtStr, restart, array) ==
    [has |-> has, Init |-> initStr, RegisterThread |-> rtStr,
     ShouldRestart |-> restart, ConstantOrStolen |-> array,
     Terminate |-> TerminateAnchor, Version |-> 2,
     Integrity |-> <<FormatAddress(4198400 - 512)>>,
     TestSecret |-> <<FormatAddress(4198400 - 256)>>]

\* The documents the extractor is started on: every array with both anchors
\* recorded, and one plain array with an anchor or the array missing or the
\* Init anchor recorded as zero.
Recipes ==
    { Recipe(TopLevel, InitAnchor, RegisterThreadAnchor, sr, a) :
        sr \in BOOLEAN, a \in EntryArrays }
    \cup
    { Recipe(h, ia, rt, FALSE,
             [i \in Indices |-> GoodEntry(i, ZeroValue, 1)]) :
        h \in {TopLevel} \cup {TopLevel \ {k} : k \in TopLevel},
        ia \in {InitAnchor, ZeroValue},
        rt \in {RegisterThreadAnchor, ZeroValue} }

\* nlohmann::json's default value, before LoadJSON.
NullJson == [has |-> {}, Init |-> <<>>, RegisterThread |-> <<>>,
             ShouldRestart |-> FALSE, ConstantOrStolen |-> <<>>,
             Terminate |-> <<>>, Version |-> 0, Integrity |-> <<>>,
             TestSecret |-> <<>>]

ArraySize(doc) == Cardinality(DOMAIN doc.ConstantOrStolen)

\* Number of entries whose Value is "0x00000000".
ZeroCount(doc) ==
    Cardinality({i \in DOMAIN doc.ConstantOrStolen :
                    /\ doc.ConstantOrStolen[i].shape = "object"
                    /\ "Value" \in doc.ConstantOrStolen[i].has
                    /\ doc.ConstantOrStolen[i].Value = ZeroValue})

\* An UpdateEntry that also resets the recipe's ShouldRestart member.
UpdateEntry_ClearsRestart(doc, index, eax) ==
    IF index < ArraySize(doc)
    THEN [doc EXCEPT !.ConstantOrStolen[index].Value = FormatValue(eax),
                     !.ConstantOrStolen[index].has = @ \cup {"Value"},
                     !.ShouldRestart = FALSE]
    ELSE doc

\* JsonReader::UpdateEntry
UpdateEntry(doc, index, eax) ==
    IF index < ArraySize(doc)
    THEN [doc EXCEPT !.ConstantOrStolen[index].Value = FormatValue(eax),
                     !.ConstantOrStolen[index].has = @ \cup {"Value"}]
    ELSE doc

\* JsonReader::SaveJSON: file is the document on disk, openOk whether the
\* output stream could be opened.
\* A SaveJSON that reports success without looking at the stream.
SaveJSON_Unchecked(doc, file, openOk) ==
    [ok |-> TRUE, file |-> IF openOk THEN doc ELSE file]

SaveJSON(doc, file, openOk) ==
    IF ~openOk THEN [ok |-> FALSE, file |-> file]
    ELSE [ok |-> TRUE, file |-> doc]

\* JsonReader::LoadJSON
LoadJSON(doc) == doc

\* operator<< of the document into the stream: the file as the sequence of
\* the chunks written so far.  nlohmann::json keeps object keys sorted, so
\* the ConstantOrStolen array comes first, entry by entry, and the other
\* top-level members and the closing brace after it.
TailChunk(doc) ==
    [k \in (DOMAIN doc \ {"ConstantOrStolen"}) \cup {"tail"} |->
        IF k = "tail" THEN TRUE ELSE doc[k]]

Dump(doc) ==
    [k \in 1..(ArraySize(doc) + 1) |->
        IF k <= ArraySize(doc) THEN doc.ConstantOrStolen[k - 1]
        ELSE TailChunk(doc)]

ParseError == [has |-> {"parse_error"}]

\* operator>> of the stream into m_JSON: the document the bytes spell, or a
\* parse error when they are not one complete document.
Parse(bytes) ==
    IF bytes = <<>> THEN ParseError
    ELSE LET n == Len(bytes)
             t == bytes[n]
         IN IF "tail" \notin DOMAIN t THEN ParseError
            ELSE [k \in (DOMAIN t \ {"tail"}) \cup {"ConstantOrStolen"} |->
                     IF k = "ConstantOrStolen"
                     THEN [i \in 0..(n - 2) |-> bytes[i + 1]]
                     ELSE t[k]]

Entries(doc) == doc.ConstantOrStolen

\* The entry is one the loop arms and raises for: Value is "0x00000000" and
\* every field passes the loop's checks.
Extractable(e) ==
    /\ e.shape = "object"
    /\ {"Value", "BP", "EIP", "Type"} \subseteq e.has
    /\ e.Value = ZeroValue
    /\ e.key # <<>>
    /\ Stoull16(e.key) > 0 /\ Stoull16(e.BP) > 0 /\ Stoull16(e.EIP) > 0
    /\ e.Type \in 1..4

\* The first index at or after i whose entry the loop extracts, or the array
\* size.
RECURSIVE FirstExtractable(_, _)
FirstExtractable(doc, i) ==
    IF i >= ArraySize(doc) THEN i
    ELSE IF Extractable(doc.ConstantOrStolen[i]) THEN i
    ELSE FirstExtractable(doc, i + 1)

----------------------------------------------------------------------------
(* BreakpointManager *)

NoBreakpoint == [m_Address |-> 0, m_BackupByte |-> 0, m_IsSet |-> FALSE]

\* BreakpointManager::SetBreakpoint.  b is the manager, m the code bytes,
\* vpOk whether VirtualProtect grants write access to the byte.
\* A SetBreakpoint without the m_IsSet guard.
SetBreakpoint_Unguarded(b, m, address, vpOk) ==
    IF ~(vpOk /\ address \in DOMAIN m) THEN [bp |-> b, mem |-> m]
    ELSE [bp |-> [m_Address |-> address, m_BackupByte |-> m[address],
                  m_IsSet |-> TRUE],
          mem |-> [m EXCEPT ![address] = INT3]]

SetBreakpoint(b, m, address, vpOk) ==
    IF b.m_IsSet THEN [bp |-> b, mem |-> m]
    ELSE IF ~(vpOk /\ address \in DOMAIN m) THEN [bp |-> b, mem |-> m]
    ELSE [bp  |-> [m_Address |-> address, m_BackupByte |-> m[address],
                   m_IsSet |-> TRUE],
          mem |-> [m EXCEPT ![address] = INT3]]

\* BreakpointManager::RemoveBreakpoint
\* A RemoveBreakpoint that clears the state without writing the byte back.
RemoveBreakpoint_NoRestore(b, m, vpOk) ==
    IF ~b.m_IsSet THEN [bp |-> b, mem |-> m]
    ELSE IF ~vpOk THEN [bp |-> b, mem |-> m]
    ELSE [bp |-> [b EXCEPT !.m_IsSet = FALSE], mem |-> m]

RemoveBreakpoint(b, m, vpOk) ==
    IF ~b.m_IsSet THEN [bp |-> b, mem |-> m]
    ELSE IF ~vpOk THEN [bp |-> b, mem |-> m]
    ELSE [bp  |-> [b EXCEPT !.m_IsSet = FALSE],
          mem |-> [m EXCEPT ![b.m_Address] = b.m_BackupByte]]

\* BreakpointManager::GetAddress
GetAddress(b) == b.m_Address

----------------------------------------------------------------------------
(* EntryProcessorManager::ProcessEntry *)

\* What one call of ProcessEntry works on: the ApplicationManager fields it
\* writes, the breakpoint manager and the code bytes; and what it did
\* (armedAt: the indices whose SetBreakpoint wrote the int3; blocked: the
\* indices whose SetBreakpoint found a breakpoint armed; rtCalled: the
\* indices for which the RegisterThread anchor was invoked; raisedAt: the
\* index the custom exception was raised for, -1 when none was).
LoopState(index, target, eipAddr, b, m) ==
    [m_CurrentIndex |-> index, m_TargetAddress |-> target,
     m_EipAddress |-> eipAddr, bp |-> b, mem |-> m,
     armedAt |-> {}, blocked |-> {}, rtCalled |-> {}, raisedAt |-> -1,
     outcome |-> "loop"]

\* The body of the for loop for the entry e at index i (entry.h 59-190).
\* outcome "loop": continue with i + 1; "raised": RaiseException was called.
LoopBody(e, i, s, registerThread, vpOk) ==
    IF e.shape # "object" THEN s
    ELSE IF "Value" \notin e.has THEN s
    ELSE IF e.Value # ZeroValue THEN s
    ELSE
      LET s1 == [s EXCEPT !.m_CurrentIndex = i]
          func_addr == Stoull16(e.key)
          bp_addr   == Stoull16(e.BP)
          eip_addr  == Stoull16(e.EIP)
      IN
      IF e.key = <<>> THEN s1
      ELSE IF "BP" \notin e.has THEN s1
      ELSE IF "EIP" \notin e.has THEN s1
      ELSE IF "Type" \notin e.has THEN s1
      ELSE IF func_addr < 0 \/ bp_addr < 0 \/ eip_addr < 0 THEN s1
      ELSE IF func_addr = 0 \/ bp_addr = 0 \/ eip_addr = 0 THEN s1
      ELSE
        LET r  == SetBreakpoint(s1.bp, s1.mem, bp_addr, vpOk)
            s2 == [s1 EXCEPT !.m_TargetAddress = func_addr,
                             !.m_EipAddress = eip_addr,
                             !.bp = r.bp, !.mem = r.mem,
                             !.armedAt = IF r.bp.m_IsSet /\ ~s1.bp.m_IsSet
                                         THEN @ \cup {i} ELSE @,
                             !.blocked = IF s1.bp.m_IsSet THEN @ \cup {i} ELSE @]
        IN
        IF e.Type = 2
        THEN [s2 EXCEPT !.raisedAt = i, !.outcome = "raised"]
        ELSE IF e.Type \in {1, 3, 4}
        THEN [s2 EXCEPT !.raisedAt = i, !.outcome = "raised",
                        !.rtCalled = IF registerThread # 0 THEN @ \cup {i} ELSE @]
        ELSE s2

RECURSIVE LoopFrom_NoStop(_, _, _, _, _)
\* A loop that goes on to the next entry after RaiseException.
LoopFrom_NoStop(i, s, doc, registerThread, vpOk) ==
    IF i >= ArraySize(doc)
    THEN [s EXCEPT !.outcome = IF s.raisedAt >= 0 THEN "raised" ELSE "exit"]
    ELSE LoopFrom_NoStop(i + 1,
             LoopBody(doc.ConstantOrStolen[i], i, s, registerThread, vpOk),
             doc, registerThread, vpOk)

RECURSIVE LoopFrom(_, _, _, _, _)
\* The for loop from index i on, then MessageBoxA and ExitProcess.
LoopFrom(i, s, doc, registerThread, vpOk) ==
    IF i >= ArraySize(doc) THEN [s EXCEPT !.outcome = "exit"]
    ELSE LET t == LoopBody(doc.ConstantOrStolen[i], i, s, registerThread, vpOk)
         IN IF t.outcome = "raised" THEN t
            ELSE LoopFrom(i + 1, t, doc, registerThread, vpOk)

\* ProcessEntry: outcome "return" (no array), "raised" or "exit".
\* A ProcessEntry that starts over at entry 0 instead of the saved index.
ProcessEntry_FromZero(s, doc, registerThread, vpOk) ==
    IF "ConstantOrStolen" \notin doc.has THEN [s EXCEPT !.outcome = "return"]
    ELSE LoopFrom(0, s, doc, registerThread, vpOk)

ProcessEntry(s, doc, registerThread, vpOk) ==
    IF "ConstantOrStolen" \notin doc.has THEN [s EXCEPT !.outcome = "return"]
    ELSE LoopFrom(s.m_CurrentIndex, s, doc, registerThread, vpOk)

----------------------------------------------------------------------------
(* State *)

VARIABLES
    disk,                    \* noceg.json on disk
    old,                     \* where the spawning process stands
    pc,                      \* where the current process stands
    json,                    \* JsonReader::m_JSON
    m_Instance,              \* ApplicationManager::m_Instance is non-null
    m_CurrentIndex,
    m_TargetAddress,
    m_EipAddress,
    m_RegisterThreadAddress,
    bp,                      \* the BreakpointManager
    mem,                     \* the code bytes of the current process
    m_ShouldRestart,
    m_Context,               \* the optional saved CONTEXT pointer
    cpu,                     \* the thread's registers while it runs
    exc,                     \* the exception being dispatched
    ev,                      \* what the last step did
    gh,                      \* history of the current process
    thr,                     \* the threads of the current process
    file,                    \* the bytes of noceg.json, in chunks
    data                     \* the analyzer's Data namespace

vars == <<disk, old, pc, json, m_Instance, m_CurrentIndex, m_TargetAddress,
          m_EipAddress, m_RegisterThreadAddress, bp, mem, m_ShouldRestart,
          m_Context, cpu, exc, ev, gh, thr, file, data>>

Context(eip, tf, eax) == [Eip |-> eip, TF |-> tf, Eax |-> eax]

NoContext == Context(0, FALSE, 0)

\* m_Context holds a pointer to the handler's CONTEXT record: what is seen
\* through it (pointee) is the record as the handler left it.  snapshot is
\* the record as it was when SetContext was called.
NoSaved == [has |-> FALSE, pointee |-> NoContext, snapshot |-> NoContext]

NoExc == [code |-> "", src |-> "", ctx |-> NoContext]

NoEv == [kind |-> "none", index |-> -1, eax |-> 0, removed |-> FALSE,
         saveOk |-> FALSE, restart |-> FALSE, ctxOut |-> NoContext,
         raisedAt |-> -1, armedAt |-> {}, blocked |-> {}, rtCalled |-> {},
         from |-> -1, thread |-> 0]

NoCapture == [index |-> -1, value |-> <<>>]

\* lastRaised: the index of the last raise of this process; captured: the
\* indices this process captured; restartFailed: SelfRestart failed here;
\* inherited: index and Value of the capture that made the parent restart.
NoGh == [lastRaised |-> -1, captured |-> {}, restartFailed |-> FALSE,
         lastCapture |-> NoCapture, inherited |-> NoCapture, raiser |-> 0]

\* pc, cpu and exc are those of the thread thr.cur; thr.other keeps them for
\* the thread that is not scheduled.  NoThread: there is no second thread.
NoThread == [pc |-> "none", cpu |-> NoContext, exc |-> NoExc]

\* The thread that loads the library, alone.
OneThread == [cur |-> 1, other |-> NoThread]

\* namespace Data of the analyzer as its definitions initialise it
\* (utils.h 117-164); 0 is the null mem::pointer.
NoData ==
    [CEG_OLD_VERSION |-> 0, CEG_INIT_LIBRARY_FUNC |-> 0,
     CEG_TERM_LIBRARY_FUNC |-> 0, CEG_REGISTER_THREAD_FUNC |-> 0,
     CEG_REGISTER_THREAD_FUNC_FUNCS |-> {},
     CEG_PROTECTED_CONSTANT_FUNCS |-> {}, CEG_PROTECTED_STOLEN_FUNCS_v1 |-> {},
     CEG_PROTECTED_STOLEN_FUNCS_v2 |-> {}, CEG_PROTECTED_STOLEN_FUNCS_v3 |-> {},
     CEG_INTEGRITY_FUNCS |-> {}, CEG_TESTSECRET_FUNCS |-> {},
     CEG_ASLR_ENABLED |-> FALSE]

FreshMem == [a \in CodeAddrs |-> OrigByte(a)]

\* A process image right after the loader mapped it, at DLL_PROCESS_ATTACH.
FreshProcess ==
    /\ pc = "attach"
    /\ json = NullJson
    /\ m_Instance = FALSE
    /\ m_CurrentIndex = 0
    /\ m_TargetAddress = 0
    /\ m_EipAddress = 0
    /\ m_RegisterThreadAddress = 0
    /\ bp = NoBreakpoint
    /\ mem = FreshMem
    /\ m_ShouldRestart = FALSE
    /\ m_Context = NoSaved
    /\ cpu = Context(HostAddr, FALSE, 0)
    /\ exc = NoExc

\* The same image for the process CreateProcessA starts.
SpawnProcess ==
    /\ pc' = "attach"
    /\ json' = NullJson
    /\ m_Instance' = FALSE
    /\ m_CurrentIndex' = 0
    /\ m_TargetAddress' = 0
    /\ m_EipAddress' = 0
    /\ m_RegisterThreadAddress' = 0
    /\ bp' = NoBreakpoint
    /\ mem' = FreshMem
    /\ m_ShouldRestart' = FALSE
    /\ m_Context' = NoSaved
    /\ cpu' = Context(HostAddr, FALSE, 0)
    /\ exc' = NoExc

Init ==
    /\ disk \in Recipes
    /\ old = "none"
    /\ FreshProcess
    /\ ev = NoEv
    /\ gh = NoGh
    /\ thr = OneThread
    /\ data = NoData
    /\ file = Dump(disk)

AppUnchanged ==
    UNCHANGED <<json, m_Instance, m_CurrentIndex, m_TargetAddress, m_EipAddress,
                m_RegisterThreadAddress, bp, mem, m_ShouldRestart, m_Context>>

----------------------------------------------------------------------------
(* DllMain, DLL_PROCESS_ATTACH *)

\* ProcessManager::GetCEGMutex: OpenMutexA, WaitForSingleObject( INFINITE ),
\* ReleaseMutex, CloseHandle.  The wait ends when no process owns the mutex;
\* the only process that can own it is the parent inside SelfRestart.
GetCEGMutex ==
    /\ UNCHANGED <<thr, file, data>>
    /\ pc = "attach"
    /\ old # "holding"
    /\ pc' = "init"
    /\ ev' = [NoEv EXCEPT !.kind = "mutex"]
    /\ UNCHANGED <<disk, old, cpu, exc, gh>>
    /\ AppUnchanged

\* The exception RaiseException( m_CustomExceptionCode, 0, 0, nullptr ) hands
\* to the dispatcher.
LoopRaise == [code |-> m_CustomExceptionCode, src |-> "loop",
              ctx |-> Context(RaiseSite, FALSE, 0)]

\* The current process takes the result r of a ProcessEntry call; g is the
\* history so far.
TakeLoopFrom(r, g) ==
    /\ m_CurrentIndex' = r.m_CurrentIndex
    /\ m_TargetAddress' = r.m_TargetAddress
    /\ m_EipAddress' = r.m_EipAddress
    /\ bp' = r.bp
    /\ mem' = r.mem
    /\ IF r.outcome = "raised"
       THEN /\ pc' = "raised"
            /\ exc' = LoopRaise
            /\ gh' = [g EXCEPT !.lastRaised = r.raisedAt, !.raiser = thr.cur]
       ELSE /\ pc' = "dead"
            /\ exc' = NoExc
            /\ gh' = g

LoopEv(e, r) == [e EXCEPT !.raisedAt = r.raisedAt, !.armedAt = r.armedAt,
                          !.blocked = r.blocked, !.rtCalled = r.rtCalled]

\* The call_once body of DllMain: EntryProcessorManager::Initialize and, on
\* an error, std::exit( 1 ).  initOk is what the CEG init routine returns;
\* survives is whether the process outlives the destruction of the
\* ApplicationManager when Initialize returns without entering the loop.
Initialize(initOk, vpOk, survives) ==
    /\ UNCHANGED <<thr, file, data>>
    /\ pc = "init"
    /\ json' = LoadJSON(disk)
    /\ UNCHANGED <<disk, old, m_ShouldRestart, m_Context, cpu>>
    /\ LET doc == LoadJSON(disk)
           e0  == [NoEv EXCEPT !.kind = "initialize", !.from = 0]
       IN
       IF "Init" \notin doc.has \/ "RegisterThread" \notin doc.has
       THEN /\ pc' = "dead"
            /\ m_Instance' = TRUE
            /\ ev' = [e0 EXCEPT !.kind = "initError"]
            /\ UNCHANGED <<m_CurrentIndex, m_TargetAddress, m_EipAddress,
                           m_RegisterThreadAddress, bp, mem, exc, gh>>
       ELSE
         LET ceg_init_addr == Stoull16(doc.Init)
             ceg_registerthread_addr == Stoull16(doc.RegisterThread)
         IN
         /\ m_RegisterThreadAddress' = ceg_registerthread_addr
         /\ IF ceg_init_addr # 0 /\ initOk /\ "ConstantOrStolen" \in doc.has
            THEN LET r == ProcessEntry(
                            LoopState(m_CurrentIndex, m_TargetAddress,
                                      m_EipAddress, bp, mem),
                            doc, ceg_registerthread_addr, vpOk)
                 IN /\ m_Instance' = TRUE
                    /\ TakeLoopFrom(r, gh)
                    /\ ev' = LoopEv(e0, r)
            ELSE /\ m_Instance' = FALSE
                 /\ pc' = IF survives THEN "running" ELSE "dead"
                 /\ ev' = [e0 EXCEPT !.kind = "initReturned"]
                 /\ UNCHANGED <<m_CurrentIndex, m_TargetAddress, m_EipAddress,
                                bp, mem, exc, gh>>

----------------------------------------------------------------------------
(* CEGExceptionHandler *)

\* EXCEPTION_CONTINUE_EXECUTION: the thread goes on with the CONTEXT record
\* as the handler left it.  EAX is followed only inside exception contexts.
ContinueExecution(ctx) ==
    /\ pc' = "running"
    /\ cpu' = [ctx EXCEPT !.Eax = 0]
    /\ exc' = NoExc

\* EXCEPTION_CONTINUE_SEARCH: the next handler of the process decides.
ContinueSearch ==
    /\ pc' = "declined"
    /\ exc' = NoExc
    /\ UNCHANGED cpu

Dispatching == pc = "raised" /\ m_Instance

\* handler.h 31-33: no ApplicationManager instance.
HandleNoInstance ==
    /\ UNCHANGED <<thr, file, data>>
    /\ pc = "raised"
    /\ ~m_Instance
    /\ ContinueSearch
    /\ ev' = [NoEv EXCEPT !.kind = "decline"]
    /\ UNCHANGED <<disk, old, gh>>
    /\ AppUnchanged

\* case 0xCEADDEAD
HandleCustom ==
    /\ UNCHANGED <<thr, file, data>>
    /\ Dispatching
    /\ exc.code = CUSTOM_HANDLED
    /\ LET ctx == [exc.ctx EXCEPT !.Eip = m_EipAddress, !.TF = TRUE]
       IN /\ m_Context' = [has |-> TRUE, pointee |-> ctx, snapshot |-> exc.ctx]
          /\ ContinueExecution(ctx)
          /\ ev' = [NoEv EXCEPT !.kind = "custom", !.ctxOut = ctx]
    /\ UNCHANGED <<disk, old, gh, json, m_Instance, m_CurrentIndex,
                   m_TargetAddress, m_EipAddress, m_RegisterThreadAddress, bp,
                   mem, m_ShouldRestart>>

\* case EXCEPTION_SINGLE_STEP
HandleSingleStep ==
    /\ UNCHANGED <<thr, file, data>>
    /\ Dispatching
    /\ exc.code = EXCEPTION_SINGLE_STEP
    /\ LET ctx == IF exc.ctx.Eip = m_TargetAddress
                  THEN [exc.ctx EXCEPT !.TF = FALSE]
                  ELSE exc.ctx
       IN /\ ContinueExecution(ctx)
          /\ ev' = [NoEv EXCEPT !.kind = "singleStep", !.ctxOut = ctx]
    /\ UNCHANGED <<disk, old, gh>>
    /\ AppUnchanged

\* case EXCEPTION_BREAKPOINT with Eip at the manager's address (handler.h
\* 74-116).  rmOk and setOk: whether VirtualProtect succeeds in
\* RemoveBreakpoint and in the SetBreakpoint of the nested ProcessEntry;
\* saveOk: whether SaveJSON could open the file.
HandleBreakpoint(rmOk, saveOk, setOk) ==
    /\ UNCHANGED <<thr, data>>
    /\ Dispatching
    /\ exc.code = EXCEPTION_BREAKPOINT
    /\ exc.ctx.Eip = GetAddress(bp)
    /\ UNCHANGED <<old, m_Instance, m_RegisterThreadAddress, m_Context>>
    /\ LET r     == RemoveBreakpoint(bp, mem, rmOk)
           index == m_CurrentIndex
           eax   == exc.ctx.Eax
           e0    == [NoEv EXCEPT !.kind = "capture", !.index = index,
                                 !.thread = thr.cur,
                                 !.eax = eax, !.removed = ~r.bp.m_IsSet,
                                 !.ctxOut = exc.ctx]
       IN
       IF ~(index < ArraySize(json))
       THEN /\ bp' = r.bp /\ mem' = r.mem
            /\ ContinueExecution(exc.ctx)
            /\ ev' = [e0 EXCEPT !.kind = "captureNone"]
            /\ UNCHANGED <<disk, json, m_CurrentIndex, m_TargetAddress,
                           m_EipAddress, m_ShouldRestart, gh>>
       ELSE
         LET doc == UpdateEntry(json, index, eax)
             res == SaveJSON(doc, disk, saveOk)
             g1  == [gh EXCEPT !.captured = @ \cup {index}]
         IN
         /\ json' = doc
         /\ IF ~res.ok
            THEN \* SaveJSON failed: a warning, nothing else.
                 /\ bp' = r.bp /\ mem' = r.mem
                 /\ ContinueExecution(exc.ctx)
                 /\ ev' = e0
                 /\ gh' = g1
                 /\ UNCHANGED <<disk, m_CurrentIndex, m_TargetAddress,
                                m_EipAddress, m_ShouldRestart>>
            ELSE
              /\ disk' = res.file
              /\ IF doc.ShouldRestart
                 THEN LET ctx == [exc.ctx EXCEPT !.Eip = RestartAppAddr]
                      IN /\ m_ShouldRestart' = TRUE
                         /\ bp' = r.bp /\ mem' = r.mem
                         /\ ContinueExecution(ctx)
                         /\ ev' = [e0 EXCEPT !.saveOk = TRUE, !.restart = TRUE,
                                             !.ctxOut = ctx]
                         /\ gh' = [g1 EXCEPT !.lastCapture =
                                      [index |-> index, value |-> FormatValue(eax)]]
                         /\ UNCHANGED <<m_CurrentIndex, m_TargetAddress,
                                        m_EipAddress>>
                 ELSE IF ~m_Context.has
                 THEN \* GetContext on an empty optional throws inside a
                      \* noexcept function: std::terminate.
                      /\ pc' = "dead"
                      /\ bp' = r.bp /\ mem' = r.mem
                      /\ ev' = [e0 EXCEPT !.kind = "captureAbort", !.saveOk = TRUE]
                      /\ gh' = g1
                      /\ UNCHANGED <<m_CurrentIndex, m_TargetAddress,
                                     m_EipAddress, m_ShouldRestart, cpu, exc>>
                 ELSE \* ctx = state->GetContext() rebinds the local pointer;
                      \* the record of this exception stays as it is.
                      LET l == ProcessEntry(
                                 LoopState(index + 1, m_TargetAddress,
                                           m_EipAddress, r.bp, r.mem),
                                 doc, m_RegisterThreadAddress, setOk)
                      IN /\ TakeLoopFrom(l, g1)
                         /\ ev' = LoopEv([e0 EXCEPT !.saveOk = TRUE,
                                                    !.from = index + 1], l)
                         /\ UNCHANGED <<m_ShouldRestart, cpu>>
    /\ file' = Dump(disk')

\* case EXCEPTION_BREAKPOINT elsewhere: break, EXCEPTION_CONTINUE_SEARCH.
HandleForeignBreakpoint ==
    /\ UNCHANGED <<thr, file, data>>
    /\ Dispatching
    /\ exc.code = EXCEPTION_BREAKPOINT
    /\ exc.ctx.Eip # GetAddress(bp)
    /\ ContinueSearch
    /\ ev' = [NoEv EXCEPT !.kind = "decline"]
    /\ UNCHANGED <<disk, old, gh>>
    /\ AppUnchanged

\* case EXCEPTION_ILLEGAL_INSTRUCTION
HandleIllegalInstruction ==
    /\ UNCHANGED <<thr, file, data>>
    /\ Dispatching
    /\ exc.code = EXCEPTION_ILLEGAL_INSTRUCTION
    /\ IF m_ShouldRestart
       THEN /\ pc' = "dead"
            /\ ev' = [NoEv EXCEPT !.kind = "forcedExit"]
            /\ UNCHANGED <<cpu, exc>>
       ELSE /\ ContinueSearch
            /\ ev' = [NoEv EXCEPT !.kind = "decline"]
    /\ UNCHANGED <<disk, old, gh>>
    /\ AppUnchanged

\* Any other code: EXCEPTION_CONTINUE_SEARCH.
HandleUnknown ==
    /\ UNCHANGED <<thr, file, data>>
    /\ Dispatching
    /\ exc.code \notin {CUSTOM_HANDLED, EXCEPTION_SINGLE_STEP,
                        EXCEPTION_BREAKPOINT, EXCEPTION_ILLEGAL_INSTRUCTION}
    /\ ContinueSearch
    /\ ev' = [NoEv EXCEPT !.kind = "decline"]
    /\ UNCHANGED <<disk, old, gh>>
    /\ AppUnchanged

----------------------------------------------------------------------------
(* The environment: the other handlers of the process, the CPU, the host *)

\* Nobody else handles the declined exception: the process is terminated.
Unhandled ==
    /\ UNCHANGED <<thr, file, data>>
    /\ pc = "declined"
    /\ pc' = "dead"
    /\ ev' = NoEv
    /\ UNCHANGED <<disk, old, cpu, exc, gh>>
    /\ AppUnchanged

\* A handler of the host takes the declined exception and the thread goes on
\* in host code; the code that raised it is abandoned.
HostHandles ==
    /\ UNCHANGED <<thr, file, data>>
    /\ pc = "declined"
    /\ pc' = "running"
    /\ cpu' = Context(HostAddr, FALSE, 0)
    /\ exc' = NoExc
    /\ ev' = NoEv
    /\ UNCHANGED <<disk, old, gh>>
    /\ AppUnchanged

\* Control flow of the host image: the call site of stub i calls the stub,
\* the stub runs to its breakpoint address and from there back to the host.
NextAddr(a) ==
    IF \E i \in Indices : a = EipOf(i)
    THEN FuncOf(CHOOSE i \in Indices : a = EipOf(i))
    ELSE IF \E i \in Indices : a = FuncOf(i)
    THEN BpOf(CHOOSE i \in Indices : a = FuncOf(i))
    ELSE HostAddr

Raise(code, src, ctx) ==
    /\ pc' = "raised"
    /\ exc' = [code |-> code, src |-> src, ctx |-> ctx]
    /\ UNCHANGED cpu

\* The thread executes an int3: a breakpoint exception whose context holds
\* the address of the int3 and the value the stub computed in EAX.
ExecInt3(eax) ==
    /\ UNCHANGED <<thr, file, data>>
    /\ pc = "running"
    /\ cpu.Eip \in CodeAddrs
    /\ mem[cpu.Eip] = INT3
    /\ Raise(EXCEPTION_BREAKPOINT, "cpu", Context(cpu.Eip, cpu.TF, eax))
    /\ ev' = NoEv
    /\ UNCHANGED <<disk, old, gh>>
    /\ AppUnchanged

\* The thread executes the code at a recipe address.  With the trap flag set
\* a single-step exception follows the instruction; tf is the trap flag the
\* OS leaves in the context it delivers.
ExecCode(tf) ==
    /\ UNCHANGED <<thr, file, data>>
    /\ pc = "running"
    /\ cpu.Eip \in CodeAddrs
    /\ mem[cpu.Eip] # INT3
    /\ IF cpu.TF
       THEN Raise(EXCEPTION_SINGLE_STEP, "cpu", Context(NextAddr(cpu.Eip), tf, 0))
       ELSE /\ tf = FALSE
            /\ cpu' = Context(NextAddr(cpu.Eip), FALSE, 0)
            /\ UNCHANGED <<pc, exc>>
    /\ ev' = NoEv
    /\ UNCHANGED <<disk, old, gh>>
    /\ AppUnchanged

\* The thread is at an address that holds no code.
ExecFault(code) ==
    /\ UNCHANGED <<thr, file, data>>
    /\ pc = "running"
    /\ cpu.Eip \notin CodeAddrs \cup {HostAddr, RestartAppAddr}
    /\ Raise(code, "cpu", cpu)
    /\ ev' = NoEv
    /\ UNCHANGED <<disk, old, gh>>
    /\ AppUnchanged

\* The host reaches the call site of stub i.
HostCalls(i) ==
    /\ UNCHANGED <<thr, file, data>>
    /\ pc = "running"
    /\ cpu.Eip = HostAddr
    /\ cpu' = [cpu EXCEPT !.Eip = EipOf(i)]
    /\ ev' = NoEv
    /\ UNCHANGED <<disk, old, pc, exc, gh>>
    /\ AppUnchanged

HostCodes == {CUSTOM_HANDLED, EXCEPTION_SINGLE_STEP, EXCEPTION_BREAKPOINT,
              EXCEPTION_ILLEGAL_INSTRUCTION, EXCEPTION_ACCESS_VIOLATION}

\* Host code raises an exception of its own; the vectored handler sees every
\* exception of the process.
HostRaises(code) ==
    /\ UNCHANGED <<thr, file, data>>
    /\ pc = "running"
    /\ cpu.Eip = HostAddr
    /\ Raise(code, "host", [cpu EXCEPT !.TF = FALSE])
    /\ ev' = NoEv
    /\ UNCHANGED <<disk, old, gh>>
    /\ AppUnchanged

----------------------------------------------------------------------------
(* RestartApp and ProcessManager::SelfRestart *)

RestartResults == {"Success", "MutexCreateFailed", "GetModuleNameFailed",
                   "CreateProcessFailed"}

\* RestartApp, entered by the handler's redirect of Eip.  result is what
\* SelfRestart comes to; ret is where the final ret of RestartApp lands (it
\* was entered without a call, so the return address is whatever the stub
\* had on top of its stack).
\* On Success the spawned process becomes the current process and this one
\* the old one, standing after CreateProcessA with the mutex owned.
RestartApp(result, ret) ==
    /\ UNCHANGED <<thr, file, data>>
    /\ pc = "running"
    /\ cpu.Eip = RestartAppAddr
    /\ UNCHANGED disk
    /\ IF ~m_ShouldRestart
       THEN /\ result = "Success"
            /\ cpu' = [cpu EXCEPT !.Eip = ret]
            /\ ev' = [NoEv EXCEPT !.kind = "restartSkipped"]
            /\ UNCHANGED <<old, pc, exc, gh>>
            /\ AppUnchanged
       ELSE IF result = "Success"
       THEN /\ ret = HostAddr
            /\ old' = "holding"
            /\ SpawnProcess
            /\ ev' = [NoEv EXCEPT !.kind = "spawn"]
            /\ gh' = [NoGh EXCEPT !.inherited = gh.lastCapture]
       ELSE /\ cpu' = [cpu EXCEPT !.Eip = ret]
            /\ ev' = [NoEv EXCEPT !.kind = "restartFailed"]
            /\ gh' = [gh EXCEPT !.restartFailed = TRUE]
            /\ UNCHANGED <<old, pc, exc>>
            /\ AppUnchanged

\* process.h 111-112: ReleaseMutex after the successful CreateProcessA.
OldReleaseMutex ==
    /\ UNCHANGED <<thr, file, data>>
    /\ old = "holding"
    /\ old' = "released"
    /\ ev' = NoEv
    /\ UNCHANGED <<disk, pc, cpu, exc, gh>>
    /\ AppUnchanged

\* process.h 114 and handler.h 27: SelfRestart returns (its handles are
\* closed) and RestartApp returns; next is where the old process goes after
\* RestartApp's ret: on in host code, or into a fault that ends it (an
\* illegal instruction makes the handler call std::exit, any other unhandled
\* exception terminates the process).
OldReturns(next) ==
    /\ UNCHANGED <<thr, file, data>>
    /\ old = "released"
    /\ old' = next
    /\ ev' = NoEv
    /\ UNCHANGED <<disk, pc, cpu, exc, gh>>
    /\ AppUnchanged

----------------------------------------------------------------------------

Next ==
    \/ GetCEGMutex
    \/ \E initOk, vpOk, survives \in BOOLEAN : Initialize(initOk, vpOk, survives)
    \/ HandleNoInstance
    \/ HandleCustom
    \/ HandleSingleStep
    \/ \E rmOk, saveOk, setOk \in BOOLEAN : HandleBreakpoint(rmOk, saveOk, setOk)
    \/ HandleForeignBreakpoint
    \/ HandleIllegalInstruction
    \/ HandleUnknown
    \/ Unhandled
    \/ HostHandles
    \/ \E eax \in EaxVals : ExecInt3(eax)
    \/ \E tf \in BOOLEAN : ExecCode(tf)
    \/ \E code \in {EXCEPTION_ILLEGAL_INSTRUCTION, EXCEPTION_ACCESS_VIOLATION} :
          ExecFault(code)
    \/ \E i \in Indices : HostCalls(i)
    \/ \E code \in HostCodes : HostRaises(code)
    \/ \E result \in RestartResults, ret \in {HostAddr, BadAddr} :
          RestartApp(result, ret)
    \/ OldReleaseMutex
    \/ \E next \in {"running", "dead"} : OldReturns(next)

Spec == Init /\ [][Next]_vars

----------------------------------------------------------------------------
(* Two threads in the host process *)

\* Recipes with every entry still to extract and ShouldRestart false.
PendingRecipes ==
    { Recipe(TopLevel, InitAnchor, RegisterThreadAnchor, FALSE, a) :
        a \in { x \in EntryArrays : \A i \in Indices : Extractable(x[i]) } }

\* The host has a second thread running its own code while the first one
\* loads the library.
InitThreads ==
    /\ disk \in PendingRecipes
    /\ old = "none"
    /\ FreshProcess
    /\ ev = NoEv
    /\ gh = NoGh
    /\ thr = [cur |-> 1,
              other |-> [pc |-> "running", cpu |-> Context(HostAddr, FALSE, 0),
                         exc |-> NoExc]]
    /\ file = Dump(disk)
    /\ data = NoData

\* The scheduler runs the other thread.  The application state is shared by
\* the threads: the vectored handler is called on whichever thread raised.
Switch ==
    /\ pc # "dead"
    /\ thr.other # NoThread
    /\ pc' = thr.other.pc
    /\ cpu' = thr.other.cpu
    /\ exc' = thr.other.exc
    /\ thr' = [cur |-> 3 - thr.cur,
               other |-> [pc |-> pc, cpu |-> cpu, exc |-> exc]]
    /\ ev' = NoEv
    /\ UNCHANGED <<disk, old, gh, file, data>>
    /\ AppUnchanged

NextThreads ==
    \/ Switch
    \/ GetCEGMutex
    \/ \E initOk, vpOk, survives \in BOOLEAN : Initialize(initOk, vpOk, survives)
    \/ HandleNoInstance
    \/ HandleCustom
    \/ HandleSingleStep
    \/ \E rmOk, saveOk, setOk \in BOOLEAN : HandleBreakpoint(rmOk, saveOk, setOk)
    \/ HandleForeignBreakpoint
    \/ HandleIllegalInstruction
    \/ HandleUnknown
    \/ Unhandled
    \/ HostHandles
    \/ \E eax \in EaxVals : ExecInt3(eax)
    \/ \E tf \in BOOLEAN : ExecCode(tf)
    \/ \E i \in Indices : HostCalls(i)
    \/ \E code \in HostCodes : HostRaises(code)

SpecThreads == InitThreads /\ [][NextThreads]_vars

----------------------------------------------------------------------------
(* SaveJSON step by step, with the process killed at any point *)

\* Here disk is the document of the last SaveJSON that returned, file the
\* bytes noceg.json holds, and pc follows the handler through the capture:
\* "idle" (a breakpoint armed, waiting for the hit), "saving" (UpdateEntry
\* done, SaveJSON called), "open" (the ofstream is open), "stalled" (SaveJSON
\* failed), "killed", "loadFailed" (LoadJSON of the next run failed).
CrashFrame ==
    UNCHANGED <<old, m_Instance, m_TargetAddress, m_EipAddress,
                m_RegisterThreadAddress, bp, mem, m_ShouldRestart, m_Context,
                cpu, exc, gh, thr, data>>

InitCrash ==
    /\ disk \in PendingRecipes
    /\ file = Dump(disk)
    /\ old = "none"
    /\ pc = "idle"
    /\ json = LoadJSON(disk)
    /\ m_Instance = TRUE
    /\ m_CurrentIndex = 0
    /\ m_TargetAddress = 0
    /\ m_EipAddress = 0
    /\ m_RegisterThreadAddress = 0
    /\ bp = NoBreakpoint
    /\ mem = FreshMem
    /\ m_ShouldRestart = FALSE
    /\ m_Context = NoSaved
    /\ cpu = Context(HostAddr, FALSE, 0)
    /\ exc = NoExc
    /\ ev = NoEv
    /\ gh = NoGh
    /\ thr = OneThread
    /\ data = NoData

\* handler.h 86: config.UpdateEntry( index, ctx->Eax ).
CaptureUpdate(eax) ==
    /\ pc = "idle"
    /\ m_CurrentIndex < ArraySize(json)
    /\ json' = UpdateEntry(json, m_CurrentIndex, eax)
    /\ pc' = "saving"
    /\ ev' = [NoEv EXCEPT !.kind = "update", !.index = m_CurrentIndex,
                          !.eax = eax]
    /\ UNCHANGED <<disk, file, m_CurrentIndex>>
    /\ CrashFrame

\* reader.h 76-78: std::ofstream out { m_JSONPath } truncates the file.
SaveOpen(openOk) ==
    /\ pc = "saving"
    /\ IF openOk THEN file' = <<>> /\ pc' = "open"
                 ELSE file' = file /\ pc' = "stalled"
    /\ ev' = [NoEv EXCEPT !.kind = "open"]
    /\ UNCHANGED <<disk, json, m_CurrentIndex>>
    /\ CrashFrame

\* reader.h 80: out << m_JSON, one chunk reaching the file.
SaveWrite ==
    /\ pc = "open"
    /\ Len(file) < Len(Dump(json))
    /\ file' = Append(file, Dump(json)[Len(file) + 1])
    /\ ev' = [NoEv EXCEPT !.kind = "write"]
    /\ UNCHANGED <<disk, json, pc, m_CurrentIndex>>
    /\ CrashFrame

\* reader.h 81 and handler.h 103-110: SaveJSON returns, the handler advances
\* the index and the loop goes to the next entry it extracts.
SaveReturn ==
    /\ pc = "open"
    /\ Len(file) = Len(Dump(json))
    /\ disk' = json
    /\ pc' = "idle"
    /\ m_CurrentIndex' = FirstExtractable(json, m_CurrentIndex + 1)
    /\ ev' = [NoEv EXCEPT !.kind = "saved", !.saveOk = TRUE]
    /\ UNCHANGED <<json, file>>
    /\ CrashFrame

\* The process is killed.
Kill ==
    /\ pc \in {"idle", "saving", "open", "stalled"}
    /\ pc' = "killed"
    /\ ev' = [NoEv EXCEPT !.kind = "kill"]
    /\ UNCHANGED <<disk, json, file, m_CurrentIndex>>
    /\ CrashFrame

\* The host is started again: LoadJSON of the file as the kill left it
\* (reader.h 49-64, entry.h 210-214), then the loop from index 0.
Reload ==
    /\ pc = "killed"
    /\ IF Parse(file) = ParseError
       THEN /\ pc' = "loadFailed"
            /\ UNCHANGED <<json, m_CurrentIndex>>
       ELSE /\ pc' = "idle"
            /\ json' = Parse(file)
            /\ m_CurrentIndex' = FirstExtractable(Parse(file), 0)
    /\ ev' = [NoEv EXCEPT !.kind = "reload"]
    /\ UNCHANGED <<disk, file>>
    /\ CrashFrame

NextCrash ==
    \/ \E eax \in EaxVals : CaptureUpdate(eax)
    \/ \E openOk \in BOOLEAN : SaveOpen(openOk)
    \/ SaveWrite
    \/ SaveReturn
    \/ Kill
    \/ Reload

SpecCrash == InitCrash /\ [][NextCrash]_vars

----------------------------------------------------------------------------
(* The analyzer (noceg_signatures): main, the scan and JsonWriter *)

\* Data::CEG_CODE_BASE = ImageBase + VirtualAddress of the first section.
CEG_CODE_BASE == 4194304
\* main's address: where the code section starts in the analyzer's memory.
SectionStart == 65536

CalculateRealAddress(address_start, address_current) ==
    CEG_CODE_BASE + (address_current - address_start)

\* The place in the analyzer's memory of the byte the image maps at va.
MemoryOf(va) == SectionStart + (va - CEG_CODE_BASE)

\* The call sites and the protected stubs of the image are those of the
\* recipe addresses above.
Stubs == {MemoryOf(FuncOf(i)) : i \in Indices}

\* Data::CEG_SCAN_SIZE
CEG_SCAN_SIZE == 300

\* InstructionAnalyzer::FINALIZE_CRC_OFFSETS, one per pattern of
\* FINALIZE_CRC_PATTERNS.
FINALIZE_CRC_OFFSETS == <<16, 13, 14, 13, 16, 14>>

\* Where pattern k has its first match inside the stub at target_func, when
\* it has one: the patterns differ in length, so do the places.
CrcHit(target_func, k) == target_func + 32 + 8 * (k - 1)

\* What the scan meets at one call site.  target is where the instruction
\* points; cur its first byte (E8 call, EB short jump); next the bytes at
\* call site + 5 as far as the classification tells them apart (ret, mov,
\* jmp eax, call eax, nop); prev the byte before the call site (51 is push
\* ecx); crc the patterns of FINALIZE_CRC_PATTERNS that match within
\* CEG_SCAN_SIZE bytes of the target; pushes the offsets of the code
\* section at which push ebp; mov ebp, esp decodes.
SiteFields(targets, nexts, curs, prevs, crcs, pushes) ==
    [target : targets, next : nexts, cur : curs, prev : prevs, crc : crcs,
     pushes : pushes]

NextBytes == {"C3", "89", "FFE0", "FFD0", "90"}

\* What the instruction at call site i points to in the images of the
\* analyzer run: stub i, stub 0 (a stub called from several sites), the
\* RegisterThread routine, or some function of the host.
CallTargets(i) == {MemoryOf(FuncOf(i)), MemoryOf(FuncOf(0)),
                   MemoryOf(Stoull16(RegisterThreadAnchor)),
                   MemoryOf(HostAddr)}

\* The images of the analyzer run: calls followed by ret, jmp eax or call
\* eax, each stub with the first finalize-CRC pattern in it.
CallSites == [Indices -> SiteFields(UNION {CallTargets(i) : i \in Indices},
                                    {"C3", "FFE0", "FFD0"}, {"E8"}, {"90"},
                                    {{1}}, {{}})]
Images == {c \in CallSites : \A i \in Indices : c[i].target \in CallTargets(i)}

ProtectedFunc(target_func, prologue, eip, real_bp) ==
    [func |-> target_func, prologue |-> prologue, eip |-> eip,
     bp |-> real_bp]

\* InstructionAnalyzer::FindFunctionPrologue; 0 is the null pointer.
FindFunctionPrologue(pushes, call_offset) ==
    LET start_scan == IF call_offset > CEG_SCAN_SIZE
                      THEN call_offset - CEG_SCAN_SIZE ELSE 0
        found == {o \in pushes : o <= call_offset /\ o > start_scan}
    IN IF found = {} THEN 0
       ELSE CalculateRealAddress(SectionStart,
                SectionStart + (CHOOSE o \in found : \A q \in found : q <= o))

\* A GetCEGFunctionType that looks at the short jump before the jmp eax.
GetCEGFunctionType_ShortJumpFirst(d, current_address, bp_address, site, call_offset, target_func) ==
    LET eip == CalculateRealAddress(SectionStart, current_address)
        real_bp == CalculateRealAddress(SectionStart, bp_address)
        f == ProtectedFunc(target_func, target_func, eip, real_bp)
    IN IF d.CEG_OLD_VERSION # 0
       THEN IF site.next = "FFD0"
            THEN IF site.prev = "51"
                 THEN [d EXCEPT !.CEG_PROTECTED_STOLEN_FUNCS_v1 =
                         @ \cup {[f EXCEPT !.eip = eip - 1]}]
                 ELSE [d EXCEPT !.CEG_PROTECTED_STOLEN_FUNCS_v1 = @ \cup {f}]
            ELSE IF site.next = "FFE0"
            THEN [d EXCEPT !.CEG_PROTECTED_STOLEN_FUNCS_v2 = @ \cup {f}]
            ELSE d
       ELSE IF site.next \in {"C3", "89"}
            THEN [d EXCEPT !.CEG_PROTECTED_CONSTANT_FUNCS = @ \cup {f}]
            ELSE IF site.cur = "EB"
            THEN [d EXCEPT !.CEG_PROTECTED_CONSTANT_FUNCS = @ \cup {f}]
            ELSE IF site.next = "FFE0"
            THEN [d EXCEPT !.CEG_PROTECTED_STOLEN_FUNCS_v2 = @ \cup {f}]
            ELSE LET prologue == FindFunctionPrologue(site.pushes, call_offset)
                 IN IF prologue # 0
                    THEN [d EXCEPT !.CEG_PROTECTED_STOLEN_FUNCS_v3 =
                            @ \cup {[f EXCEPT !.prologue = prologue]}]
                    ELSE [d EXCEPT !.CEG_PROTECTED_STOLEN_FUNCS_v3 =
                            @ \cup {f}]

\* InstructionAnalyzer::GetCEGFunctionType
GetCEGFunctionType(d, current_address, bp_address, site, call_offset, target_func) ==
    LET eip == CalculateRealAddress(SectionStart, current_address)
        real_bp == CalculateRealAddress(SectionStart, bp_address)
        f == ProtectedFunc(target_func, target_func, eip, real_bp)
    IN IF d.CEG_OLD_VERSION # 0
       THEN IF site.next = "FFD0"
            THEN IF site.prev = "51"
                 THEN [d EXCEPT !.CEG_PROTECTED_STOLEN_FUNCS_v1 =
                         @ \cup {[f EXCEPT !.eip = eip - 1]}]
                 ELSE [d EXCEPT !.CEG_PROTECTED_STOLEN_FUNCS_v1 = @ \cup {f}]
            ELSE IF site.next = "FFE0"
            THEN [d EXCEPT !.CEG_PROTECTED_STOLEN_FUNCS_v2 = @ \cup {f}]
            ELSE d
       ELSE IF site.next \in {"C3", "89"}
            THEN [d EXCEPT !.CEG_PROTECTED_CONSTANT_FUNCS = @ \cup {f}]
            ELSE IF site.next = "FFE0"
            THEN [d EXCEPT !.CEG_PROTECTED_STOLEN_FUNCS_v2 = @ \cup {f}]
            ELSE IF site.cur = "EB"
            THEN [d EXCEPT !.CEG_PROTECTED_CONSTANT_FUNCS = @ \cup {f}]
            ELSE LET prologue == FindFunctionPrologue(site.pushes, call_offset)
                 IN IF prologue # 0
                    THEN [d EXCEPT !.CEG_PROTECTED_STOLEN_FUNCS_v3 =
                            @ \cup {[f EXCEPT !.prologue = prologue]}]
                    ELSE [d EXCEPT !.CEG_PROTECTED_STOLEN_FUNCS_v3 =
                            @ \cup {f}]

\* A ProcessProtectedFunction whose fallback takes the byte before the call
\* site as EIP whatever that byte is.
ProcessProtectedFunction_EipBeforeCall(d, current_address, target_func, site, call_offset) ==
    LET next_instruction_address == current_address + 5
        func == CalculateRealAddress(SectionStart, target_func)
    IN IF site.crc # {}
       THEN LET k == CHOOSE x \in site.crc : \A y \in site.crc : x <= y
                bp_address == CrcHit(target_func, k) + FINALIZE_CRC_OFFSETS[k]
            IN GetCEGFunctionType(d, current_address, bp_address, site,
                                  call_offset, func)
       ELSE IF d.CEG_OLD_VERSION # 0 /\ site.next = "FFD0"
       THEN LET eip == CalculateRealAddress(SectionStart, current_address - 1)
                real_bp == CalculateRealAddress(SectionStart,
                                                next_instruction_address + 2)
            IN [d EXCEPT !.CEG_PROTECTED_STOLEN_FUNCS_v1 =
                  @ \cup {ProtectedFunc(func, func, eip, real_bp)}]
       ELSE d

\* InstructionAnalyzer::ProcessProtectedFunction
ProcessProtectedFunction(d, current_address, target_func, site, call_offset) ==
    LET next_instruction_address == current_address + 5
        func == CalculateRealAddress(SectionStart, target_func)
    IN IF site.crc # {}
       THEN LET k == CHOOSE x \in site.crc : \A y \in site.crc : x <= y
                bp_address == CrcHit(target_func, k) + FINALIZE_CRC_OFFSETS[k]
            IN GetCEGFunctionType(d, current_address, bp_address, site,
                                  call_offset, func)
       ELSE IF d.CEG_OLD_VERSION # 0 /\ site.next = "FFD0"
       THEN LET eip == CalculateRealAddress(SectionStart, current_address - 1)
                real_bp == CalculateRealAddress(SectionStart,
                                                next_instruction_address + 2)
            IN IF site.prev = "51"
               THEN [d EXCEPT !.CEG_PROTECTED_STOLEN_FUNCS_v1 =
                       @ \cup {ProtectedFunc(func, func, eip, real_bp)}]
               ELSE [d EXCEPT !.CEG_PROTECTED_STOLEN_FUNCS_v1 =
                       @ \cup {ProtectedFunc(func, func, eip + 1, real_bp)}]
       ELSE d

\* InstructionAnalyzer::ProcessTargetInstruction
ProcessTargetInstruction(d, current_address, site, protect_funcs) ==
    LET d1 == IF /\ d.CEG_REGISTER_THREAD_FUNC = 0
                 /\ d.CEG_REGISTER_THREAD_FUNC_FUNCS # {}
                 /\ site.target \in d.CEG_REGISTER_THREAD_FUNC_FUNCS
              THEN [d EXCEPT !.CEG_REGISTER_THREAD_FUNC = site.target]
              ELSE d
    IN IF site.target \in protect_funcs
       THEN ProcessProtectedFunction(d1, current_address, site.target, site,
                                     current_address - SectionStart)
       ELSE d1

RECURSIVE AnalyzeFrom(_, _, _, _)
\* InstructionAnalyzer::AnalyzeCEGProtectedFunctions: the instructions of
\* interest in the order of their offsets.
\* (The state after instruction i is bound to a variable so that it is
\* computed once.)
AnalyzeFrom(i, d, image, protect_funcs) ==
    IF i >= NumEntries THEN d
    ELSE CHOOSE result \in
            { AnalyzeFrom(i + 1, after, image, protect_funcs) :
                after \in {ProcessTargetInstruction(d, MemoryOf(EipOf(i)),
                                                    image[i], protect_funcs)} } :
            TRUE

\* main.cpp 149-167: remove_ref erases from the v2 map the keys of the maps
\* the version of the protection decides.
RemoveDuplicates(d) ==
    LET keys == IF d.CEG_OLD_VERSION # 0
                THEN {f.func : f \in d.CEG_PROTECTED_STOLEN_FUNCS_v1}
                ELSE {f.func : f \in d.CEG_PROTECTED_CONSTANT_FUNCS}
                     \cup {f.func : f \in d.CEG_PROTECTED_STOLEN_FUNCS_v3}
    IN [d EXCEPT !.CEG_PROTECTED_STOLEN_FUNCS_v2 =
                    {f \in @ : f.func \notin keys}]

RECURSIVE InKeyOrder(_)
\* The elements of a multimap as iteration yields them: by key, and for one
\* key in the order of insertion, which is the order of the call sites.
InKeyOrder(m) ==
    IF m = {} THEN <<>>
    ELSE LET first == CHOOSE f \in m : \A g \in m :
                          \/ f.func < g.func
                          \/ f.func = g.func /\ f.eip <= g.eip
         IN <<first>> \o InKeyOrder(m \ {first})

\* An add_protected_funcs that writes the function address as EIP.
AddProtectedFuncs_EipFromKey(container, type) ==
    LET fs == InKeyOrder(container)
    IN [k \in 1..Len(fs) |->
          [shape |-> "object", key |-> FormatAddress(fs[k].func),
           has |-> EntryFields,
           Prologue |-> FormatAddress(fs[k].prologue),
           EIP |-> FormatAddress(fs[k].func), BP |-> FormatAddress(fs[k].bp),
           Value |-> ZeroValue, Type |-> type]]

\* add_protected_funcs of JsonWriter::WriteJSON.
AddProtectedFuncs(container, type) ==
    LET fs == InKeyOrder(container)
    IN [k \in 1..Len(fs) |->
          [shape |-> "object", key |-> FormatAddress(fs[k].func),
           has |-> EntryFields,
           Prologue |-> FormatAddress(fs[k].prologue),
           EIP |-> FormatAddress(fs[k].eip), BP |-> FormatAddress(fs[k].bp),
           Value |-> ZeroValue, Type |-> type]]

RECURSIVE AddFuncs(_)
\* add_funcs of JsonWriter::WriteJSON, the addresses in ascending order as
\* the scan found them.
AddFuncs(container) ==
    IF container = {} THEN <<>>
    ELSE LET first == CHOOSE a \in container : \A b \in container : a <= b
         IN <<FormatAddress(first)>> \o AddFuncs(container \ {first})

RecipeKeys == TopLevel \cup {"Terminate", "Version", "ShouldRestart",
                             "Integrity", "TestSecret"}

\* A WriteJSON that leaves out the member of an anchor that is null.
WriteJSON_OmitsNull(d) ==
    LET j_array_protected ==
            AddProtectedFuncs(d.CEG_PROTECTED_CONSTANT_FUNCS, 1)
            \o AddProtectedFuncs(d.CEG_PROTECTED_STOLEN_FUNCS_v1, 2)
            \o AddProtectedFuncs(d.CEG_PROTECTED_STOLEN_FUNCS_v2, 3)
            \o AddProtectedFuncs(d.CEG_PROTECTED_STOLEN_FUNCS_v3, 4)
    IN [has |-> IF d.CEG_REGISTER_THREAD_FUNC = 0
                THEN RecipeKeys \ {"RegisterThread"} ELSE RecipeKeys,
        Init |-> FormatAddress(d.CEG_INIT_LIBRARY_FUNC),
        RegisterThread |-> FormatAddress(d.CEG_REGISTER_THREAD_FUNC),
        Terminate |-> FormatAddress(d.CEG_TERM_LIBRARY_FUNC),
        Version |-> IF d.CEG_OLD_VERSION # 0 THEN 1 ELSE 2,
        ConstantOrStolen |->
            [i \in 0..(Len(j_array_protected) - 1) |-> j_array_protected[i + 1]],
        ShouldRestart |-> FALSE,
        Integrity |-> AddFuncs(d.CEG_INTEGRITY_FUNCS),
        TestSecret |-> AddFuncs(d.CEG_TESTSECRET_FUNCS)]

\* JsonWriter::WriteJSON: the document j_root.
WriteJSON(d) ==
    LET j_array_protected ==
            AddProtectedFuncs(d.CEG_PROTECTED_CONSTANT_FUNCS, 1)
            \o AddProtectedFuncs(d.CEG_PROTECTED_STOLEN_FUNCS_v1, 2)
            \o AddProtectedFuncs(d.CEG_PROTECTED_STOLEN_FUNCS_v2, 3)
            \o AddProtectedFuncs(d.CEG_PROTECTED_STOLEN_FUNCS_v3, 4)
    IN [has |-> RecipeKeys,
        Init |-> FormatAddress(d.CEG_INIT_LIBRARY_FUNC),
        RegisterThread |-> FormatAddress(d.CEG_REGISTER_THREAD_FUNC),
        Terminate |-> FormatAddress(d.CEG_TERM_LIBRARY_FUNC),
        Version |-> IF d.CEG_OLD_VERSION # 0 THEN 1 ELSE 2,
        ConstantOrStolen |->
            [i \in 0..(Len(j_array_protected) - 1) |-> j_array_protected[i + 1]],
        ShouldRestart |-> FALSE,
        Integrity |-> AddFuncs(d.CEG_INTEGRITY_FUNCS),
        TestSecret |-> AddFuncs(d.CEG_TESTSECRET_FUNCS)]

\* Here pc is main's position: "main", "loaded" (LoadBinaryImage returned),
\* "anchors" (Init and Terminate found), "analyzed", "scanned", "written",
\* "exit0" and "exit1" (main returned 0 or 1); disk is the noceg.json next
\* to the analyzer, NullJson while there is none.
AnalyzerFrame ==
    UNCHANGED <<old, json, m_Instance, m_CurrentIndex, m_TargetAddress,
                m_EipAddress, m_RegisterThreadAddress, bp, mem,
                m_ShouldRestart, m_Context, cpu, exc, gh, thr, file>>

InitAnalyzer ==
    /\ disk = NullJson
    /\ file = <<>>
    /\ old = "none"
    /\ pc = "main"
    /\ json = NullJson
    /\ m_Instance = FALSE
    /\ m_CurrentIndex = 0
    /\ m_TargetAddress = 0
    /\ m_EipAddress = 0
    /\ m_RegisterThreadAddress = 0
    /\ bp = NoBreakpoint
    /\ mem = FreshMem
    /\ m_ShouldRestart = FALSE
    /\ m_Context = NoSaved
    /\ cpu = NoContext
    /\ exc = NoExc
    /\ ev = NoEv
    /\ gh = NoGh
    /\ thr = OneThread
    /\ data = NoData

\* main.cpp 56-89: the argument check, BinaryRead and LoadBinaryImage, which
\* notes whether the image has ASLR enabled (utils.h 205-216, 296).
LoadBinaryImage(ok, aslr) ==
    /\ pc = "main"
    /\ IF ok THEN /\ pc' = "loaded"
                  /\ data' = [data EXCEPT !.CEG_ASLR_ENABLED = aslr]
             ELSE /\ pc' = "exit1"
                  /\ data' = data
    /\ ev' = [NoEv EXCEPT !.kind = "load", !.saveOk = ok]
    /\ UNCHANGED disk
    /\ AnalyzerFrame

\* main.cpp 91-123: the legacy test and the Init and Terminate patterns;
\* legacy, init and term tell whether the image holds a match (the legacy
\* sequence at the start of the section, the two routines at their VAs).
FindAnchors(legacy, init, term) ==
    /\ pc = "loaded"
    /\ LET old_version == IF legacy THEN SectionStart ELSE 0
           init_func == IF init THEN MemoryOf(Stoull16(InitAnchor)) ELSE 0
           term_func == IF term THEN MemoryOf(Stoull16(TerminateAnchor)) ELSE 0
       IN IF init_func = 0
          THEN /\ pc' = "exit1"
               /\ data' = [data EXCEPT !.CEG_OLD_VERSION = old_version]
          ELSE IF term_func = 0
          THEN /\ pc' = "exit1"
               /\ data' = [data EXCEPT
                    !.CEG_OLD_VERSION = old_version,
                    !.CEG_INIT_LIBRARY_FUNC =
                        CalculateRealAddress(SectionStart, init_func)]
          ELSE /\ pc' = "anchors"
               /\ data' = [data EXCEPT
                    !.CEG_OLD_VERSION = old_version,
                    !.CEG_INIT_LIBRARY_FUNC =
                        CalculateRealAddress(SectionStart, init_func),
                    !.CEG_TERM_LIBRARY_FUNC =
                        CalculateRealAddress(SectionStart, term_func)]
    /\ ev' = [NoEv EXCEPT !.kind = "anchors"]
    /\ UNCHANGED disk
    /\ AnalyzerFrame

\* The protected functions the instructions of the image point to, as the
\* keys ProcessProtectedFunction records them under.
Referenced(image, protect_funcs) ==
    {CalculateRealAddress(SectionStart, image[i].target) :
        i \in {j \in Indices : image[j].target \in protect_funcs}}

\* The keys of one of the four multimaps.
KeysOf(container) == {f.func : f \in container}

\* The maps of namespace Data that hold target_func as a key.
MapsHolding(d, target_func) ==
    {m \in {"CEG_PROTECTED_CONSTANT_FUNCS", "CEG_PROTECTED_STOLEN_FUNCS_v1",
            "CEG_PROTECTED_STOLEN_FUNCS_v2", "CEG_PROTECTED_STOLEN_FUNCS_v3"} :
        target_func \in KeysOf(d[m])}

\* main.cpp 125-193: the RegisterThread candidates and the protected stubs
\* the patterns find, the scan of the instructions, the removal of
\* duplicates and the choice of the RegisterThread anchor.
AnalyzeImage(candidates, ceg_protect, image) ==
    /\ pc = "anchors"
    /\ LET d0 == [data EXCEPT !.CEG_REGISTER_THREAD_FUNC_FUNCS = candidates]
       IN IF ceg_protect = {} THEN data' = d0
          ELSE \E analyzed \in {AnalyzeFrom(0, d0, image, ceg_protect)} :
               \E d1 \in {RemoveDuplicates(analyzed)} :
                 data' = IF d1.CEG_REGISTER_THREAD_FUNC # 0
                         THEN [d1 EXCEPT !.CEG_REGISTER_THREAD_FUNC =
                                 CalculateRealAddress(SectionStart, @)]
                         ELSE d1
    /\ pc' = "analyzed"
    /\ ev' = [kind |-> "analyze", saveOk |-> TRUE,
              referenced |-> IF ceg_protect = {} THEN {}
                             ELSE Referenced(image, ceg_protect)]
    /\ UNCHANGED disk
    /\ AnalyzerFrame

\* main.cpp 195-213: the integrity and test-secret functions.
FindOthers(integrity, testsecret) ==
    /\ pc = "analyzed"
    /\ data' = [data EXCEPT
          !.CEG_INTEGRITY_FUNCS =
              {CalculateRealAddress(SectionStart, a) : a \in integrity},
          !.CEG_TESTSECRET_FUNCS =
              {CalculateRealAddress(SectionStart, a) : a \in testsecret}]
    /\ pc' = "scanned"
    /\ ev' = [NoEv EXCEPT !.kind = "others"]
    /\ UNCHANGED disk
    /\ AnalyzerFrame

\* main.cpp 215-216 with writer.h 35-41 and 133-137: the constructor opens
\* (and empties) noceg.json or throws, WriteJSON writes the document or
\* throws; main's catch returns 1.
WriteRecipe(openOk, writeOk) ==
    /\ pc = "scanned"
    /\ IF ~openOk THEN pc' = "exit1" /\ disk' = disk
       ELSE IF ~writeOk THEN pc' = "exit1" /\ disk' = ParseError
       ELSE pc' = "written" /\ disk' = WriteJSON(data)
    /\ ev' = [NoEv EXCEPT !.kind = "write", !.saveOk = openOk /\ writeOk]
    /\ UNCHANGED data
    /\ AnalyzerFrame

\* main.cpp 218-234: the copy of the binary without ASLR, and the exit.
FinishAnalyzer(saveOk) ==
    /\ pc = "written"
    /\ pc' = IF data.CEG_ASLR_ENABLED /\ ~saveOk THEN "exit1" ELSE "exit0"
    /\ ev' = [NoEv EXCEPT !.kind = "finish",
                          !.saveOk = ~data.CEG_ASLR_ENABLED \/ saveOk]
    /\ UNCHANGED <<disk, data>>
    /\ AnalyzerFrame

NextAnalyzer ==
    \/ \E ok, aslr \in BOOLEAN : LoadBinaryImage(ok, aslr)
    \/ \E legacy, init, term \in BOOLEAN : FindAnchors(legacy, init, term)
    \/ /\ pc = "anchors"
       /\ \E candidates \in SUBSET {MemoryOf(Stoull16(RegisterThreadAnchor))},
             ceg_protect \in SUBSET Stubs, image \in Images :
               AnalyzeImage(candidates, ceg_protect, image)
    \/ \E integrity \in SUBSET {MemoryOf(4198400 - 512)},
          testsecret \in SUBSET {MemoryOf(4198400 - 256)} :
            FindOthers(integrity, testsecret)
    \/ \E openOk, writeOk \in BOOLEAN : WriteRecipe(openOk, writeOk)
    \/ \E saveOk \in BOOLEAN : FinishAnalyzer(saveOk)

SpecAnalyzer == InitAnalyzer /\ [][NextAnalyzer]_vars

----------------------------------------------------------------------------
(* The classification of one call site *)

\* The call site looked at: call site 0 of the image, pointing to stub 0.
SiteAddress == MemoryOf(EipOf(0))
SiteOffset == SiteAddress - SectionStart

\* Offsets before the call site at which a push ebp; mov ebp, esp can sit:
\* 64 bytes before it, and at both sides of the end of the backward scan.
PrologueOffsets == {SiteOffset - 64, SiteOffset - (CEG_SCAN_SIZE - 1),
                    SiteOffset - CEG_SCAN_SIZE}

\* Every call site the classification tells apart.
Sites == SiteFields({MemoryOf(FuncOf(0))}, NextBytes, {"E8", "EB"},
                    {"51", "90"}, SUBSET (1..Len(FINALIZE_CRC_OFFSETS)),
                    SUBSET PrologueOffsets)

\* Here ev holds the call site the scan has reached and data the version of
\* the protection, with the four maps empty; pc is "site" before and
\* "classified" after ProcessProtectedFunction.
InitClassify ==
    /\ disk = NullJson
    /\ file = <<>>
    /\ old = "none"
    /\ pc = "site"
    /\ json = NullJson
    /\ m_Instance = FALSE
    /\ m_CurrentIndex = 0
    /\ m_TargetAddress = 0
    /\ m_EipAddress = 0
    /\ m_RegisterThreadAddress = 0
    /\ bp = NoBreakpoint
    /\ mem = FreshMem
    /\ m_ShouldRestart = FALSE
    /\ m_Context = NoSaved
    /\ cpu = NoContext
    /\ exc = NoExc
    /\ ev \in {[kind |-> "site", site |-> site] : site \in Sites}
    /\ gh = NoGh
    /\ thr = OneThread
    /\ data \in {[NoData EXCEPT !.CEG_OLD_VERSION = v] : v \in {0, SectionStart}}

\* analyzer.h 139-140: the target is a protected function.
Classify ==
    /\ pc = "site"
    /\ data' = ProcessProtectedFunction(data, SiteAddress, ev.site.target,
                                        ev.site, SiteOffset)
    /\ pc' = "classified"
    /\ ev' = [kind |-> "classify", site |-> ev.site]
    /\ UNCHANGED disk
    /\ AnalyzerFrame

NextClassify == Classify

SpecClassify == InitClassify /\ [][NextClassify]_vars

----------------------------------------------------------------------------
(* The conversion of addresses, in std::uint32_t arithmetic *)

\* A std::uint32_t is the pair <<high half, low half>> of its 16-bit halves.
HalfWord == 65536

\* a + b and a - b of std::uint32_t, which wrap around.
Add32(a, b) ==
    LET lo == a[2] + b[2]
    IN <<(a[1] + b[1] + (lo \div HalfWord)) % HalfWord, lo % HalfWord>>
Sub32(a, b) ==
    LET lo == (a[2] - b[2]) + HalfWord
    IN <<((a[1] - b[1]) + HalfWord - (IF lo < HalfWord THEN 1 ELSE 0)) % HalfWord,
         lo % HalfWord>>

\* The std::uint32_t of a number below 2^31.
U32(n) == <<n \div HalfWord, n % HalfWord>>

\* content.data(): where the file sits in the analyzer's memory
\* (00010000, 7FFE0000).
Buffers == {<<1, 0>>, <<32766, 0>>}
\* OptionalHeader.ImageBase, not 0 (00400000, FFFFF000).
ImageBases == {<<64, 0>>, <<65535, 61440>>}
\* VirtualAddress of the first section (00001000, 00010000).
VirtualAddresses == {<<0, 4096>>, <<1, 0>>}
\* PointerToRawData of the first section, not 0 (00000400, 00001000).
RawDataPointers == {<<0, 1024>>, <<0, 4096>>}
\* Offsets into the code section (0, 1, 00001000, 00011170).
SectionOffsets == {<<0, 0>>, <<0, 1>>, <<0, 4096>>, <<1, 4464>>}

\* A VaToOffset that leaves out the pointer to the raw data.
VaToOffset_Rva(d, va) ==
    LET rva == Sub32(Sub32(va, d.CEG_IMAGEBASE_RAW), d.CEG_VIRTUAL_ADDRESS)
    IN Add32(d.CEG_IMAGEBASE_MEMORY, rva)

\* utils.h 573-583
VaToOffset(d, va) ==
    LET rva == Add32(Sub32(Sub32(va, d.CEG_IMAGEBASE_RAW), d.CEG_VIRTUAL_ADDRESS),
                     d.CEG_RAW_DATA_POINTER)
    IN Add32(d.CEG_IMAGEBASE_MEMORY, rva)

\* utils.h 523-529
CalculateRealAddress32(d, address_start, address_current) ==
    Add32(d.CEG_CODE_BASE, Sub32(address_current, address_start))

\* utils.h 120-132 and main.cpp 80-81: the view of the image before
\* LoadBinaryImage.
NoView ==
    [CEG_IMAGEBASE_MEMORY |-> <<0, 0>>, CEG_IMAGEBASE_RAW |-> <<0, 0>>,
     CEG_RAW_DATA_POINTER |-> <<0, 0>>, address |-> <<0, 0>>, size |-> <<0, 0>>,
     CEG_VIRTUAL_ADDRESS |-> <<0, 0>>, CEG_CODE_BASE |-> <<0, 0>>]

\* Here data holds the constants LoadBinaryImage sets and the start of the
\* code section, and ev the last conversion.
InitAddress ==
    /\ disk = NullJson
    /\ file = <<>>
    /\ old = "none"
    /\ pc = "main"
    /\ json = NullJson
    /\ m_Instance = FALSE
    /\ m_CurrentIndex = 0
    /\ m_TargetAddress = 0
    /\ m_EipAddress = 0
    /\ m_RegisterThreadAddress = 0
    /\ bp = NoBreakpoint
    /\ mem = FreshMem
    /\ m_ShouldRestart = FALSE
    /\ m_Context = NoSaved
    /\ cpu = NoContext
    /\ exc = NoExc
    /\ ev = [kind |-> "none"]
    /\ gh = NoGh
    /\ thr = OneThread
    /\ data = NoView

\* What the headers of a file can lack: nothing, or the one field a test of
\* LoadBinaryImage looks at.
Defects == {"none", "empty", "e_magic", "Signature", "ImageBase",
            "PointerToRawData", "VirtualSize"}

\* The headers of a file: a well-formed one with at most one defect.
Header(content, image_base, virtual_address, raw_data_pointer, defect) ==
    [empty |-> defect = "empty", data |-> content,
     e_magic |-> defect # "e_magic", Signature |-> defect # "Signature",
     ImageBase |-> IF defect = "ImageBase" THEN U32(0) ELSE image_base,
     PointerToRawData |-> IF defect = "PointerToRawData" THEN U32(0)
                          ELSE raw_data_pointer,
     VirtualSize |-> IF defect = "VirtualSize" THEN U32(0) ELSE U32(4096),
     VirtualAddress |-> virtual_address]

\* CEG::LoadBinaryImage on the view d: the view it leaves and what it
\* returns ("none" for success).
LoadBinaryImageInto(d, header) ==
    IF header.empty THEN [view |-> d, error |-> "EmptyContent"]
    ELSE LET d1 == [d EXCEPT !.CEG_IMAGEBASE_MEMORY = header.data]
         IN IF d1.CEG_IMAGEBASE_MEMORY = U32(0)
            THEN [view |-> d1, error |-> "NullBaseAddress"]
            ELSE IF ~header.e_magic
            THEN [view |-> d1, error |-> "InvalidDOSHeader"]
            ELSE IF ~header.Signature
            THEN [view |-> d1, error |-> "InvalidPEHeader"]
            ELSE IF header.ImageBase = U32(0)
            THEN [view |-> d1, error |-> "NullImageBase"]
            ELSE LET d2 == [d1 EXCEPT !.CEG_IMAGEBASE_RAW = header.ImageBase]
                 IN IF header.PointerToRawData = U32(0)
                    THEN [view |-> d2, error |-> "NullRawPointer"]
                    ELSE LET d3 == [d2 EXCEPT
                                      !.CEG_RAW_DATA_POINTER = header.PointerToRawData,
                                      !.address = Add32(d2.CEG_IMAGEBASE_MEMORY,
                                                        header.PointerToRawData),
                                      !.size = header.VirtualSize]
                         IN IF d3.size = U32(0)
                            THEN [view |-> d3, error |-> "NullVirtualSize"]
                            ELSE [view |-> [d3 EXCEPT
                                      !.CEG_VIRTUAL_ADDRESS = header.VirtualAddress,
                                      !.CEG_CODE_BASE = Add32(d3.CEG_IMAGEBASE_RAW,
                                                              header.VirtualAddress)],
                                  error |-> "none"]

\* main.cpp 80-89: LoadBinaryImage on a file with these headers.
ReadHeaders(content, image_base, virtual_address, raw_data_pointer, defect) ==
    /\ pc = "main"
    /\ LET res == LoadBinaryImageInto(data,
                      Header(content, image_base, virtual_address,
                             raw_data_pointer, defect))
       IN /\ data' = res.view
          /\ pc' = IF res.error = "none" THEN "loaded" ELSE "exit1"
          /\ ev' = [kind |-> "load", error |-> res.error, before |-> data]
    /\ UNCHANGED disk
    /\ AnalyzerFrame

\* A memory address of the code section is made an image VA
\* (analyzer.h 286, 287), and that VA a memory address again.
ToRealAddress(offset) ==
    /\ pc = "loaded"
    /\ LET p == Add32(data.address, offset)
           va == CalculateRealAddress32(data, data.address, p)
       IN ev' = [kind |-> "real", from |-> p, to |-> va,
                 back |-> VaToOffset(data, va)]
    /\ UNCHANGED <<disk, pc, data>>
    /\ AnalyzerFrame

\* An image VA of the code section is made a memory address
\* (analyzer.h 127), and that address an image VA again.
ToMemoryAddress(offset) ==
    /\ pc = "loaded"
    /\ LET va == Add32(data.CEG_CODE_BASE, offset)
           p == VaToOffset(data, va)
       IN ev' = [kind |-> "memory", from |-> va, to |-> p,
                 back |-> CalculateRealAddress32(data, data.address, p)]
    /\ UNCHANGED <<disk, pc, data>>
    /\ AnalyzerFrame

NextAddress ==
    \/ \E content \in Buffers, image_base \in ImageBases,
          virtual_address \in VirtualAddresses,
          raw_data_pointer \in RawDataPointers, defect \in Defects :
            ReadHeaders(content, image_base, virtual_address, raw_data_pointer,
                        defect)
    \/ \E offset \in SectionOffsets : ToRealAddress(offset)
    \/ \E offset \in SectionOffsets : ToMemoryAddress(offset)

SpecAddress == InitAddress /\ [][NextAddress]_vars

----------------------------------------------------------------------------
(* The patcher (src/noceg_patcher) *)

\* a < b of two std::uint32_t
Less32(a, b) == a[1] < b[1] \/ (a[1] = b[1] /\ a[2] < b[2])
\* The value of a std::uint32_t below 2^31.
AsNat(a) == a[1] * HalfWord + a[2]

\* The four bytes memcpy writes for a 32-bit value on x86, lowest first.
LittleEndian(v) == <<v[2] % 256, v[2] \div 256, v[1] % 256, v[1] \div 256>>

\* The character code of c, for the characters of a hex string.
CharCode(c) ==
    IF \E d \in 1..10 : HexUpper[d] = c
    THEN 47 + (CHOOSE d \in 1..10 : HexUpper[d] = c)
    ELSE IF \E d \in 11..16 : HexUpper[d] = c
    THEN 54 + (CHOOSE d \in 11..16 : HexUpper[d] = c)
    ELSE IF \E d \in 11..16 : HexLower[d] = c
    THEN 86 + (CHOOSE d \in 11..16 : HexLower[d] = c)
    ELSE IF c = "X" THEN 88 ELSE IF c = "x" THEN 120 ELSE 0

RECURSIVE StringLessFrom(_, _, _)
StringLessFrom(a, b, i) ==
    IF i > Len(b) THEN FALSE
    ELSE IF i > Len(a) THEN TRUE
    ELSE IF CharCode(a[i]) # CharCode(b[i]) THEN CharCode(a[i]) < CharCode(b[i])
    ELSE StringLessFrom(a, b, i + 1)

\* std::less<std::string>, the order of std::map<std::string, PatchInfo>.
StringLess(a, b) == StringLessFrom(a, b, 1)

RECURSIVE FromChars(_, _, _, _)
\* std::from_chars( first, last, value, 16 ): the longest run of hex digits;
\* <<>> stands for an error code (no digit, or a value out of range).
FromChars(s, i, acc, seen) ==
    IF i > Len(s) \/ DigitValue(s[i]) < 0
    THEN IF seen THEN acc ELSE <<>>
    ELSE LET hi == acc[1] * 16 + (acc[2] \div 4096)
             lo == (acc[2] % 4096) * 16 + DigitValue(s[i])
         IN IF hi >= HalfWord THEN <<>>
            ELSE FromChars(s, i + 1, <<hi, lo>>, TRUE)

\* Patcher::StringToNumber
StringToNumber(hex) ==
    LET digits == IF Len(hex) >= 2 /\ hex[1] = "0" /\ hex[2] = "x"
                  THEN SubSeq(hex, 3, Len(hex)) ELSE hex
        parsed == FromChars(digits, 1, <<0, 0>>, FALSE)
    IN IF parsed = <<>> THEN <<0, 0>> ELSE parsed

\* "0x" and the eight lowercase hex digits of a std::uint32_t.
FormatAddress32(a) ==
    <<"0", "x">> \o [k \in 1..4 |-> HexLower[((a[1] \div Pow16(4 - k)) % 16) + 1]]
                \o [k \in 1..4 |-> HexLower[((a[2] \div Pow16(4 - k)) % 16) + 1]]

\* The binary the patcher is started on: OptionalHeader.ImageBase, the
\* section table (one section), and the length of the file.  The section is
\* longer in memory than in the file.
PatcherImageBase == U32(4194304)
PatcherSections ==
    <<[VirtualAddress |-> U32(4096), VirtualSize |-> U32(96),
       PointerToRawData |-> U32(512)]>>
FileSize == 576

\* The byte the file holds at offset o before it is patched.
OrigFileByte(o) == IF o % 8 = 0 THEN 85 ELSE 139
OrigFile == [o \in 0..(FileSize - 1) |-> OrigFileByte(o)]

\* The image VA the section table maps to file offset o.
VaOfOffset(o) ==
    Add32(PatcherImageBase,
          Add32(PatcherSections[1].VirtualAddress,
                Sub32(U32(o), PatcherSections[1].PointerToRawData)))

\* Where the recipe's addresses point: entry i's function, the anchors, the
\* last offset at which a patch is written, the first at which none is, and
\* an address after every section.
SiteOf(i) == VaOfOffset(512 + 8 * i)
InitSite == VaOfOffset(544)
TerminateSite == VaOfOffset(552)
IntegritySite == VaOfOffset(560)
TestSecretSite == VaOfOffset(564)
LastFit == VaOfOffset(FileSize - 6)
NearEnd == VaOfOffset(FileSize - 5)
Outside == Add32(PatcherImageBase, U32(8192))

\* Values the extractor captured: one above and one below every site.
PatchValues == {FormatValue(305441741), <<"0","x","0","0","0","0","1","0","0","0">>}

\* An address two bytes into the patch of the entry before entry i (of the
\* last entry for entry 0).
OverlapOf(i) == VaOfOffset(512 + 8 * ((i + NumEntries - 1) % NumEntries) + 2)

\* The entries a recipe can hold at index i: the key of function i or of
\* function 0, Type 0 or one of TypeChoices(i), or nothing but a Prologue.
PatchEntries(i) ==
    { [shape |-> "object", key |-> FormatAddress(FuncOf(k)), has |-> EntryFields,
       Prologue |-> FormatAddress32(p), EIP |-> FormatAddress(EipOf(i)),
       BP |-> FormatAddress(BpOf(i)), Value |-> v, Type |-> t] :
        k \in {0, i}, p \in {SiteOf(i), LastFit, NearEnd, Outside, OverlapOf(i)},
        v \in PatchValues, t \in {0} \cup TypeChoices(i) }
    \cup
    { [shape |-> "object", key |-> FormatAddress(FuncOf(i)), has |-> {"Prologue"},
       Prologue |-> FormatAddress32(p), EIP |-> <<>>, BP |-> <<>>,
       Value |-> <<>>, Type |-> 0] : p \in {SiteOf(i), LastFit} }

\* The entry of function i as the extractor completed it.
GoodPatch(i) ==
    [shape |-> "object", key |-> FormatAddress(FuncOf(i)), has |-> EntryFields,
     Prologue |-> FormatAddress32(SiteOf(i)), EIP |-> FormatAddress(EipOf(i)),
     BP |-> FormatAddress(BpOf(i)), Value |-> DoneValue, Type |-> 1 + 2 * (i % 2)]

\* Arrays in which at most one entry is not that one.
PatchArrays ==
    UNION { { [[i \in Indices |-> GoodPatch(i)] EXCEPT ![k] = e] :
                e \in PatchEntries(k) } : k \in Indices }

\* The recipes next to the patcher: with every member, with the array only,
\* and a file that is no JSON object.
PatcherRecipes ==
    { [has |-> h, Init |-> FormatAddress32(InitSite),
       RegisterThread |-> RegisterThreadAnchor,
       Terminate |-> FormatAddress32(TerminateSite), Version |-> 2,
       ShouldRestart |-> FALSE, ConstantOrStolen |-> a,
       Integrity |-> <<FormatAddress32(IntegritySite)>>,
       TestSecret |-> <<FormatAddress32(TestSecretSite)>>] :
        h \in {RecipeKeys, {"ConstantOrStolen"}}, a \in PatchArrays }
    \cup {ParseError}

RECURSIVE RvaToOffsetFrom(_, _)
RvaToOffsetFrom(rva, i) ==
    IF i > Len(PatcherSections) THEN U32(0)
    ELSE LET section == PatcherSections[i]
         IN IF /\ ~Less32(rva, section.VirtualAddress)
               /\ Less32(rva, Add32(section.VirtualAddress, section.VirtualSize))
            THEN Add32(Sub32(rva, section.VirtualAddress), section.PointerToRawData)
            ELSE RvaToOffsetFrom(rva, i + 1)

\* Patcher::RvaToOffset
RvaToOffset(rva) == RvaToOffsetFrom(rva, 1)

PatchInfo(address, prologue, type, value) ==
    [address |-> address, m_Prologue |-> prologue, m_Type |-> type,
     m_Value |-> value]

\* std::map::try_emplace: the map is a set of elements with distinct keys.
TryEmplace(patches, info) ==
    IF \E p \in patches : p.address = info.address THEN patches
    ELSE patches \cup {info}

RECURSIVE ParseGroups(_, _, _)
\* main.cpp 245-313: parse_group on the elements of ConstantOrStolen from
\* index i on.
ParseGroups(patches, array, i) ==
    IF i \notin DOMAIN array THEN patches
    ELSE LET group == array[i]
             type == IF "Type" \in group.has THEN group.Type ELSE 0
             value == IF "Value" \in group.has THEN group.Value ELSE <<>>
         IN IF \/ group.shape # "object"
               \/ "Prologue" \notin group.has
               \/ type < 0 \/ type > 4
               \/ group.Prologue = <<>>
            THEN ParseGroups(patches, array, i + 1)
            ELSE ParseGroups(TryEmplace(patches,
                                 PatchInfo(group.key, group.Prologue, type, value)),
                             array, i + 1)

RECURSIVE ParseSimpleArray(_, _, _)
\* main.cpp 316-338: parse_simple_array on the elements from index i on.
ParseSimpleArray(patches, array, i) ==
    IF i > Len(array) THEN patches
    ELSE ParseSimpleArray(TryEmplace(patches, PatchInfo(array[i], array[i], 0, <<>>)),
                          array, i + 1)

\* Patcher::LoadPatches on the document j the file holds.
LoadPatches(j) ==
    IF j = ParseError THEN {}
    ELSE LET p1 == IF "Init" \in j.has
                   THEN TryEmplace({}, PatchInfo(j.Init, j.Init, 0, <<>>)) ELSE {}
             p2 == IF "Terminate" \in j.has
                   THEN TryEmplace(p1, PatchInfo(j.Terminate, j.Terminate, 0, <<>>))
                   ELSE p1
             p3 == IF "ConstantOrStolen" \in j.has
                   THEN ParseGroups(p2, j.ConstantOrStolen, 0) ELSE p2
             p4 == IF "TestSecret" \in j.has
                   THEN ParseSimpleArray(p3, j.TestSecret, 1) ELSE p3
         IN IF "Integrity" \in j.has
            THEN ParseSimpleArray(p4, j.Integrity, 1) ELSE p4

\* A PatchBytes that writes mov eax, Value; ret for type 0 as well.
PatchBytes_MovEaxForAll(info, prologue) ==
    IF info.m_Type \in {0, 1, 2, 3}
    THEN <<184>> \o LittleEndian(StringToNumber(info.m_Value)) \o <<195>>
    ELSE IF info.m_Type = 4
    THEN <<233>> \o LittleEndian(Sub32(StringToNumber(info.m_Value),
                                       Add32(prologue, U32(5))))
    ELSE <<>>

\* A patch of type 4 whose displacement counts from the prologue itself.
PatchBytes_FromPrologue(info, prologue) ==
    IF info.m_Type = 0 THEN <<176, 1, 195>>
    ELSE IF info.m_Type \in {1, 2, 3}
    THEN <<184>> \o LittleEndian(StringToNumber(info.m_Value)) \o <<195>>
    ELSE IF info.m_Type = 4
    THEN <<233>> \o LittleEndian(Sub32(StringToNumber(info.m_Value), prologue))
    ELSE <<>>

\* main.cpp 384-421: the bytes the switch writes at the offset.
PatchBytes(info, prologue) ==
    IF info.m_Type = 0 THEN <<176, 1, 195>>
    ELSE IF info.m_Type \in {1, 2, 3}
    THEN <<184>> \o LittleEndian(StringToNumber(info.m_Value)) \o <<195>>
    ELSE IF info.m_Type = 4
    THEN <<233>> \o LittleEndian(Sub32(StringToNumber(info.m_Value),
                                       Add32(prologue, U32(5))))
    ELSE <<>>

\* A WriteBytes that inserts the bytes at the offset (std::vector::insert).
WriteBytes_Inserts(buf, offset, bytes) ==
    [o \in 0..(Cardinality(DOMAIN buf) + Len(bytes) - 1) |->
        IF o < offset THEN buf[o]
        ELSE IF o < offset + Len(bytes) THEN bytes[(o - offset) + 1]
        ELSE buf[o - Len(bytes)]]

\* m_FileData[offset + k] = bytes[k + 1]; no element of a std::vector lies
\* outside it.
WriteBytes(buf, offset, bytes) ==
    [o \in DOMAIN buf |-> IF o >= offset /\ o < offset + Len(bytes)
                          THEN bytes[(o - offset) + 1] ELSE buf[o]]

\* A PatchOffset that only asks for the offset to lie inside the buffer.
PatchOffset_NoMargin(buf, image_base, info) ==
    LET prologue == StringToNumber(info.m_Prologue)
        offset == RvaToOffset(Sub32(prologue, image_base))
    IN IF Less32(prologue, image_base) THEN 0
       ELSE IF offset = U32(0) \/ ~Less32(offset, U32(Cardinality(DOMAIN buf)))
       THEN 0
       ELSE AsNat(offset)

\* main.cpp 372-380: the offset a patch is written at; 0 when it is skipped.
PatchOffset(buf, image_base, info) ==
    LET prologue == StringToNumber(info.m_Prologue)
        offset == RvaToOffset(Sub32(prologue, image_base))
    IN IF Less32(prologue, image_base) THEN 0
       ELSE IF offset = U32(0) \/ ~Less32(offset, U32(Cardinality(DOMAIN buf) - 5))
       THEN 0
       ELSE AsNat(offset)

RECURSIVE ApplyPatchesFrom(_, _, _)
\* The loop of Patcher::ApplyPatches over the patches left, in the order of
\* their keys; written holds the offsets the loop has assigned to.
ApplyPatchesFrom(acc, image_base, left) ==
    IF left = {} THEN acc
    ELSE LET info == CHOOSE p \in left :
                        \A q \in left \ {p} : StringLess(p.address, q.address)
             offset == PatchOffset(acc.buf, image_base, info)
             bytes == PatchBytes(info, StringToNumber(info.m_Prologue))
         IN IF offset = 0
            THEN ApplyPatchesFrom(acc, image_base, left \ {info})
            ELSE ApplyPatchesFrom(
                    [buf |-> WriteBytes(acc.buf, offset, bytes),
                     num_applied |-> acc.num_applied + (IF bytes = <<>> THEN 0 ELSE 1),
                     written |-> acc.written
                                   \cup {offset + k : k \in 0..(Len(bytes) - 1)}],
                    image_base, left \ {info})

\* Patcher::ApplyPatches
ApplyPatches(buf, image_base, patches) ==
    ApplyPatchesFrom([buf |-> buf, num_applied |-> 0, written |-> {}],
                     image_base, patches)

\* Here mem is Patcher::m_FileData (empty before LoadFile), data holds
\* m_ImageBase and the map LoadPatches returned, disk is the noceg.json in
\* the current directory and file the <stem>_noceg output (empty while there
\* is none); pc is main's position.
NoPatcher == [m_ImageBase |-> U32(0), patches |-> {}]

PatcherFrame ==
    UNCHANGED <<old, json, m_Instance, m_CurrentIndex, m_TargetAddress,
                m_EipAddress, m_RegisterThreadAddress, bp, m_ShouldRestart,
                m_Context, cpu, exc, gh, thr>>

InitPatcher ==
    /\ disk \in PatcherRecipes
    /\ file = <<>>
    /\ old = "none"
    /\ pc = "main"
    /\ json = NullJson
    /\ m_Instance = FALSE
    /\ m_CurrentIndex = 0
    /\ m_TargetAddress = 0
    /\ m_EipAddress = 0
    /\ m_RegisterThreadAddress = 0
    /\ bp = NoBreakpoint
    /\ mem = <<>>
    /\ m_ShouldRestart = FALSE
    /\ m_Context = NoSaved
    /\ cpu = NoContext
    /\ exc = NoExc
    /\ ev = [kind |-> "none"]
    /\ gh = NoGh
    /\ thr = OneThread
    /\ data = NoPatcher

\* main.cpp 489: LoadFile
LoadFile(ok) ==
    /\ pc = "main"
    /\ IF ok THEN mem' = OrigFile /\ pc' = "read"
             ELSE mem' = mem /\ pc' = "exit1"
    /\ ev' = [kind |-> "load"]
    /\ UNCHANGED <<disk, file, data>>
    /\ PatcherFrame

\* main.cpp 489: ValidatePe
ValidatePe(valid) ==
    /\ pc = "read"
    /\ IF valid THEN data' = [data EXCEPT !.m_ImageBase = PatcherImageBase]
                     /\ pc' = "valid"
                ELSE data' = data /\ pc' = "exit1"
    /\ ev' = [kind |-> "validate"]
    /\ UNCHANGED <<disk, file, mem>>
    /\ PatcherFrame

\* main.cpp 495-501
ReadRecipe ==
    /\ pc = "valid"
    /\ LET patches == LoadPatches(disk)
       IN /\ data' = [data EXCEPT !.patches = patches]
          /\ pc' = IF patches = {} THEN "exit1" ELSE "parsed"
    /\ ev' = [kind |-> "patches"]
    /\ UNCHANGED <<disk, file, mem>>
    /\ PatcherFrame

\* main.cpp 503-508
Patch ==
    /\ pc = "parsed"
    /\ \E applied \in {ApplyPatches(mem, data.m_ImageBase, data.patches)} :
          /\ mem' = applied.buf
          /\ pc' = IF applied.num_applied # 0 THEN "applied" ELSE "exit1"
          /\ ev' = [kind |-> "apply", written |-> applied.written,
                    before |-> mem]
    /\ UNCHANGED <<disk, file, data>>
    /\ PatcherFrame

\* main.cpp 510-514: SavePatchedFile
SavePatchedFile(ok) ==
    /\ pc = "applied"
    /\ IF ok THEN file' = mem /\ pc' = "exit0"
             ELSE file' = file /\ pc' = "exit1"
    /\ ev' = [kind |-> "save"]
    /\ UNCHANGED <<disk, mem, data>>
    /\ PatcherFrame

NextPatcher ==
    \/ \E ok \in BOOLEAN : LoadFile(ok)
    \/ \E valid \in BOOLEAN : ValidatePe(valid)
    \/ ReadRecipe
    \/ Patch
    \/ \E ok \in BOOLEAN : SavePatchedFile(ok)

SpecPatcher == InitPatcher /\ [][NextPatcher]_vars

----------------------------------------------------------------------------
(* Properties *)

\* The step is a breakpoint capture whose SaveJSON succeeded.
SavedCapture(e) == e.kind \in {"capture", "captureAbort"} /\ e.saveOk

Armed == {a \in CodeAddrs : mem[a] = INT3}

(* C1: the exception the iteration loop raises carries the code the        *)
(* handler's redirect case matches (0xCEADDEAD), so that every raise by    *)
(* the loop is taken by that case.                                         *)
C1_LoopRaiseIsTheHandledCode ==
    (pc = "raised" /\ exc.src = "loop") => exc.code = CUSTOM_HANDLED

(* C2: the number of entries of the recipe whose Value is "0x00000000"     *)
(* never increases, and every breakpoint capture whose save succeeds       *)
(* decreases it by exactly one, whatever EAX held.                         *)
C2_RecipeMonotonic ==
    [][ /\ ZeroCount(disk') <= ZeroCount(disk)
        /\ SavedCapture(ev') => ZeroCount(disk') = ZeroCount(disk) - 1 ]_vars

C4_ResumesWithSavedContext ==
    /\ m_Context.has => m_Context.pointee = m_Context.snapshot
    /\ (ev.kind = "capture" /\ ev.saveOk /\ ~ev.restart) =>
           ev.ctxOut = m_Context.snapshot

(* C5: a capture under ShouldRestart sets the restart flag, leaves the     *)
(* index alone, arms nothing and redirects to the restart helper; the      *)
(* helper spawns the new process and exits, so the old process never goes  *)
(* back to running host code.                                              *)
C5_RestartHelperExits ==
    /\ [][ (ev'.kind = "capture" /\ ev'.restart) =>
             /\ m_ShouldRestart'
             /\ m_CurrentIndex' = m_CurrentIndex
             /\ ev'.armedAt = {} /\ ev'.raisedAt = -1
             /\ pc' = "running" /\ cpu'.Eip = RestartAppAddr ]_vars
    /\ [](old # "running")

(* C6: while the old process is alive the new one is still at its startup  *)
(* mutex wait.                                                             *)
C6_NewWaitsForOldExit ==
    old \in {"holding", "released", "running"} => pc = "attach"

(* C7: the process started by a restart loads the recipe with the Value    *)
(* its parent captured last; its loop starts at the first entry whose      *)
(* Value is "0x00000000"; and no entry whose Value is non-zero is armed or *)
(* captured again.                                                         *)
C7_ResumableAcrossRestarts ==
    [][ /\ (ev'.kind = "initialize" /\ gh.inherited.index >= 0) =>
              Entries(json')[gh.inherited.index].Value = gh.inherited.value
        /\ (ev'.kind = "initialize" /\ ev'.raisedAt >= 0) =>
              /\ Entries(json')[ev'.raisedAt].Value = ZeroValue
              /\ \A k \in 0..(ev'.raisedAt - 1) :
                    ~Extractable(Entries(json')[k])
        /\ \A k \in ev'.armedAt : Entries(json')[k].Value = ZeroValue
        /\ ev'.kind \in {"capture", "captureAbort"} =>
              Entries(disk)[ev'.index].Value = ZeroValue ]_vars

C9_FailedRestartContinues ==
    gh.restartFailed =>
        /\ ev.kind # "forcedExit"
        /\ (pc = "running" /\ cpu.Eip = HostAddr /\ json # NullJson) =>
              \/ bp.m_IsSet
              \/ \A k \in Indices : ~Extractable(Entries(json)[k])

(* C10: at most one address holds the INT3 of the breakpoint manager; the  *)
(* manager's record agrees with memory; a step that puts an INT3 at a new  *)
(* address while one was armed removed the old one first; and a            *)
(* SetBreakpoint refused because one is armed leaves the armed one alone.  *)
C10_AtMostOneBreakpoint ==
    /\ [](/\ Cardinality(Armed) <= 1
          /\ Armed # {} => (bp.m_IsSet /\ Armed = {bp.m_Address})
          /\ bp.m_IsSet => /\ bp.m_Address \in CodeAddrs
                           /\ mem[bp.m_Address] = INT3
                           /\ bp.m_BackupByte = OrigByte(bp.m_Address))
    /\ [][ ev'.kind # "spawn" =>
           /\ \A a \in CodeAddrs :
                (mem'[a] = INT3 /\ mem[a] # INT3) =>
                    /\ \A b \in CodeAddrs \ {a} : mem'[b] # INT3
                    /\ bp.m_IsSet => ev'.removed
           /\ (ev'.blocked # {} /\ ev'.armedAt = {} /\ bp.m_IsSet
                 /\ ~ev'.removed) =>
                    (mem' = mem /\ bp' = bp) ]_vars

\* SetBreakpoint was called while a breakpoint was armed, after the loop
\* armed the breakpoint of an entry it does not raise for.
C10_Witness ==
    /\ ev.kind = "initialize" /\ ev.armedAt # {} /\ ev.blocked # {}
    /\ bp.m_IsSet /\ Cardinality(Armed) = 1

\* SetBreakpoint(a) followed by RemoveBreakpoint() on memory m, starting from
\* the manager b; setOk and rmOk are the outcomes of the two protection
\* changes.
ArmDisarm(b, m, a, setOk, rmOk) ==
    LET s == SetBreakpoint(b, m, a, setOk)
    IN RemoveBreakpoint(s.bp, s.mem, rmOk)

C12_GetAddressZeroWhenDisarmed ==
    /\ [](IF bp.m_IsSet
          THEN GetAddress(bp) \in CodeAddrs /\ mem[GetAddress(bp)] = INT3
          ELSE GetAddress(bp) = 0)
    /\ [][ (pc = "raised" /\ exc.code = EXCEPTION_BREAKPOINT
              /\ ~bp.m_IsSet /\ pc' # "raised") =>
                 ev'.kind = "decline" ]_vars

(* C13: with two threads in the process, a breakpoint hit is captured      *)
(* (Value written) only on the thread that raised the loop's exception for *)
(* the current entry.                                                      *)
C13_CaptureOnRaisingThread ==
    [][ ev'.kind \in {"capture", "captureAbort"} =>
            ev'.thread = gh.raiser ]_vars

(* C14: whenever the process is killed, during or between SaveJSON calls,  *)
(* the recipe file is a complete document that parses, equal to the        *)
(* document of the last completed save or to the one being saved.          *)
C14_SaveIsCrashAtomic ==
    pc = "killed" =>
        /\ Parse(file) # ParseError
        /\ Parse(file) \in {disk, json}

\* Document e is document d, or d with nothing but the Value of entry i
\* changed.
OnlyValueAt(d, e, i) ==
    \/ e = d
    \/ /\ i \in DOMAIN d.ConstantOrStolen
       /\ DOMAIN e.ConstantOrStolen = DOMAIN d.ConstantOrStolen
       /\ e = [d EXCEPT !.ConstantOrStolen[i].Value =
                            e.ConstantOrStolen[i].Value,
                        !.ConstantOrStolen[i].has = @ \cup {"Value"}]

(* C15: in every step the document in memory and the document on disk      *)
(* change at most in the Value of the entry at the current index; the      *)
(* other fields of that entry, every other entry and every top-level       *)
(* member stay as they are.  (The document in memory is also what LoadJSON *)
(* reads from disk, and it is empty in a process just started.)            *)
C15_OnlyValueChanges ==
    [][ /\ OnlyValueAt(disk, disk', m_CurrentIndex)
        /\ \/ OnlyValueAt(json, json', m_CurrentIndex)
           \/ json = NullJson /\ json' = disk /\ ev'.kind \in
                 {"initialize", "initError", "initReturned"}
           \/ json' = NullJson /\ ev'.kind = "spawn" ]_vars

\* Entry 1 was captured and saved, under a recipe that asks for restarts.
C15_Witness ==
    /\ ev.kind = "capture" /\ ev.saveOk /\ ev.index = 1
    /\ disk.ShouldRestart
    /\ disk.ConstantOrStolen[1].Value = FormatValue(305441741)
    /\ disk.Terminate = TerminateAnchor

C17_InvalidEntriesLeaveNoTrace ==
    [][ (ev'.kind \in {"initialize", "capture"} /\ ev'.from >= 0) =>
        /\ \A k \in ev'.armedAt : Extractable(Entries(json')[k])
        /\ ev'.raisedAt = -1 =>
              /\ m_TargetAddress' = m_TargetAddress
              /\ m_EipAddress' = m_EipAddress ]_vars

(* C18: the extractor goes on until every entry is processed, which needs  *)
(* every exception its loop raises for an entry to send the thread on into *)
(* the stub: the handler never declines it, which would leave the entry    *)
(* unextracted and the process without a handler for its own exception.    *)
C18_LoopRaiseReachesTheStub ==
    [][ (pc = "raised" /\ exc.src = "loop") =>
            /\ ev'.kind = "custom"
            /\ pc' = "running" ]_vars

\* An anchor of the recipe that is absent or recorded as zero.
AnchorMissing(doc, k) ==
    \/ k \notin doc.has
    \/ Stoull16(IF k = "Init" THEN doc.Init ELSE doc.RegisterThread) = 0

(* C19: when the Init or the RegisterThread anchor of the recipe is absent  *)
(* or recorded as zero, Initialize returns its error, arms no breakpoint   *)
(* and processes no entry.                                                 *)
C19_RefusesWithoutAnchors ==
    [][ ( /\ ev'.kind \in {"initialize", "initError", "initReturned"}
          /\ \E k \in {"Init", "RegisterThread"} :
                AnchorMissing(LoadJSON(disk), k) ) =>
            /\ ev'.kind = "initError"
            /\ ev'.armedAt = {} /\ ev'.raisedAt = -1
            /\ \A a \in CodeAddrs : mem'[a] # INT3 ]_vars

(* C20 as stated: looking for the anchors never ends the analyzer, and the  *)
(* recipe it writes holds "0x00000000" for each anchor it did not find.    *)
C20_ToleratesMissingAnchors ==
    [][ /\ ev'.kind = "anchors" => pc' # "exit1"
        /\ (ev'.kind = "write" /\ pc' = "written") =>
              /\ data.CEG_INIT_LIBRARY_FUNC = 0 => disk'.Init = ZeroValue
              /\ data.CEG_TERM_LIBRARY_FUNC = 0 => disk'.Terminate = ZeroValue
              /\ data.CEG_REGISTER_THREAD_FUNC = 0 =>
                    disk'.RegisterThread = ZeroValue ]_vars

(* C20, amended: the analyzer returns 1 from its search of the anchors,     *)
(* with no recipe written, exactly when the Init or the Terminate pattern  *)
(* is not found; it returns 1 later only when noceg.json or the copy of    *)
(* the binary cannot be written; and every recipe it writes has all its    *)
(* members, Init and Terminate non-zero, and RegisterThread as             *)
(* "0x00000000" when no RegisterThread anchor was chosen.                  *)
C20_ToleratesMissingRegisterThread ==
    /\ [][ /\ ev'.kind = "anchors" =>
                /\ pc' = "exit1" <=> (\/ data'.CEG_INIT_LIBRARY_FUNC = 0
                                      \/ data'.CEG_TERM_LIBRARY_FUNC = 0)
                /\ disk' = NullJson
           /\ (ev'.kind = "write" /\ pc' = "written") =>
                /\ disk'.has = RecipeKeys
                /\ disk'.Init = InitAnchor
                /\ disk'.Terminate = TerminateAnchor
                /\ disk'.RegisterThread =
                      IF data.CEG_REGISTER_THREAD_FUNC = 0 THEN ZeroValue
                      ELSE RegisterThreadAnchor ]_vars
    /\ [](pc = "exit1" =>
            \/ ev.kind = "anchors"
            \/ ev.kind \in {"load", "write", "finish"} /\ ~ev.saveOk)

C20_Witness ==
    /\ pc = "exit0"
    /\ data.CEG_REGISTER_THREAD_FUNC = 0
    /\ disk.RegisterThread = ZeroValue
    /\ disk.Init = InitAnchor
    /\ ArraySize(disk) > 0

(* C21: after the pass and the removal of duplicates, every protected      *)
(* function an instruction of the image points to is a key of exactly one  *)
(* of the four maps.                                                       *)
C21_ExactlyOneMap ==
    [][ ev'.kind = "analyze" =>
            \A t \in ev'.referenced :
                Cardinality(MapsHolding(data', t)) = 1 ]_vars

(* C22 as stated: the ConstantOrStolen array the analyzer writes holds at   *)
(* most one entry under each function address.                             *)
C22_FuncUniqueInRecipe ==
    [][ (ev'.kind = "write" /\ pc' = "written") =>
            \A i, j \in DOMAIN Entries(disk') :
                Entries(disk')[i].key = Entries(disk')[j].key => i = j ]_vars

(* C22, amended: the array holds one entry for each call site at which the *)
(* function was recorded: two entries under one function address differ in *)
(* EIP, and the array has as many entries as the four maps have records.   *)
C22_OneEntryPerCallSite ==
    [][ (ev'.kind = "write" /\ pc' = "written") =>
            /\ \A i, j \in DOMAIN Entries(disk') :
                  ( /\ Entries(disk')[i].key = Entries(disk')[j].key
                    /\ Entries(disk')[i].EIP = Entries(disk')[j].EIP ) => i = j
            /\ ArraySize(disk') =
                  Cardinality(data.CEG_PROTECTED_CONSTANT_FUNCS)
                  + Cardinality(data.CEG_PROTECTED_STOLEN_FUNCS_v1)
                  + Cardinality(data.CEG_PROTECTED_STOLEN_FUNCS_v2)
                  + Cardinality(data.CEG_PROTECTED_STOLEN_FUNCS_v3) ]_vars

C22_Witness ==
    /\ pc = "written"
    /\ ArraySize(disk) = 2
    /\ Entries(disk)[0].key = Entries(disk)[1].key
    /\ Entries(disk)[0].Type = Entries(disk)[1].Type
    /\ Entries(disk)[0].EIP # Entries(disk)[1].EIP

\* Is x an address of the image as its header lays it out?
IsImageVA(x) == x >= CEG_CODE_BASE

\* What a map holds, without the Prologue.
Recorded(container) ==
    {[func |-> f.func, eip |-> f.eip, bp |-> f.bp] : f \in container}

\* The first finalize-CRC pattern, in list order, that matches in the stub.
FirstMatch(site) == CHOOSE k \in site.crc : \A y \in site.crc : k <= y

\* C23: in a modern binary a call site whose stub holds a finalize-CRC match
\* is recorded once, with EIP the VA of the call site and BP the VA of the
\* first matching pattern's hit plus that pattern's offset: as ConstantV2
\* when the byte after the call is C3 or 89, else as StolenV2 when the bytes
\* after the call are FF E0, else as ConstantV2 when the call site starts with
\* EB, else as StolenV3; every recorded address is an image VA.
C23_ModernClassification ==
    (pc = "classified" /\ data.CEG_OLD_VERSION = 0 /\ ev.site.crc # {}) =>
        LET site == ev.site
            k == FirstMatch(site)
            hit == CrcHit(site.target, k)
            want == {[func |-> FuncOf(0), eip |-> EipOf(0),
                      bp |-> CEG_CODE_BASE
                             + (hit + FINALIZE_CRC_OFFSETS[k] - SectionStart)]}
            variant == IF site.next \in {"C3", "89"} THEN "ConstantV2"
                       ELSE IF site.next = "FFE0" THEN "StolenV2"
                       ELSE IF site.cur = "EB" THEN "ConstantV2"
                       ELSE "StolenV3"
            all == data.CEG_PROTECTED_CONSTANT_FUNCS
                     \cup data.CEG_PROTECTED_STOLEN_FUNCS_v1
                     \cup data.CEG_PROTECTED_STOLEN_FUNCS_v2
                     \cup data.CEG_PROTECTED_STOLEN_FUNCS_v3
        IN /\ Recorded(data.CEG_PROTECTED_CONSTANT_FUNCS)
                = IF variant = "ConstantV2" THEN want ELSE {}
           /\ Recorded(data.CEG_PROTECTED_STOLEN_FUNCS_v2)
                = IF variant = "StolenV2" THEN want ELSE {}
           /\ Recorded(data.CEG_PROTECTED_STOLEN_FUNCS_v3)
                = IF variant = "StolenV3" THEN want ELSE {}
           /\ data.CEG_PROTECTED_STOLEN_FUNCS_v1 = {}
           /\ Cardinality(all) = 1
           /\ \A f \in all : /\ IsImageVA(f.func) /\ IsImageVA(f.prologue)
                             /\ IsImageVA(f.eip) /\ IsImageVA(f.bp)

\* A short jump followed by jmp eax, its stub matching the second and the
\* fourth pattern, was recorded as StolenV2.
C23_Witness ==
    /\ pc = "classified"
    /\ data.CEG_OLD_VERSION = 0
    /\ ev.site.crc = {2, 4}
    /\ ev.site.next = "FFE0"
    /\ ev.site.cur = "EB"
    /\ data.CEG_PROTECTED_STOLEN_FUNCS_v2 # {}

\* C24: in a modern binary a call site whose stub holds no finalize-CRC
\* match and which is followed by none of the special bytes is recorded as
\* StolenV3, its Prologue the VA of the push ebp; mov ebp, esp that sits 64
\* bytes before the call site.
C24_UnmatchedStubIsStolenV3 ==
    (/\ pc = "classified"
     /\ data.CEG_OLD_VERSION = 0
     /\ ev.site.crc = {}
     /\ ev.site.next = "90"
     /\ ev.site.cur = "E8"
     /\ ev.site.pushes = {SiteOffset - 64}) =>
        \E f \in data.CEG_PROTECTED_STOLEN_FUNCS_v3 :
            /\ f.func = FuncOf(0)
            /\ f.prologue = CEG_CODE_BASE + (SiteOffset - 64)

\* C25: in a legacy binary a call site followed by FF E0 is recorded as
\* StolenV2 with EIP the call site and BP two bytes after the following
\* instruction, one followed by FF D0 is recorded as StolenV1 with that BP,
\* both whether or not a finalize-CRC pattern matches in the stub, and one
\* followed by neither is not recorded.
C25_LegacyClassification ==
    (pc = "classified" /\ data.CEG_OLD_VERSION # 0) =>
        LET site == ev.site
            next_bp == EipOf(0) + 5 + 2
        IN /\ site.next = "FFE0" =>
                Recorded(data.CEG_PROTECTED_STOLEN_FUNCS_v2)
                    = {[func |-> FuncOf(0), eip |-> EipOf(0), bp |-> next_bp]}
           /\ site.next = "FFD0" =>
                /\ data.CEG_PROTECTED_STOLEN_FUNCS_v1 # {}
                /\ \A f \in data.CEG_PROTECTED_STOLEN_FUNCS_v1 :
                      f.func = FuncOf(0) /\ f.bp = next_bp
           /\ site.next \notin {"FFE0", "FFD0"} =>
                /\ data.CEG_PROTECTED_CONSTANT_FUNCS = {}
                /\ data.CEG_PROTECTED_STOLEN_FUNCS_v1 = {}
                /\ data.CEG_PROTECTED_STOLEN_FUNCS_v2 = {}
                /\ data.CEG_PROTECTED_STOLEN_FUNCS_v3 = {}

\* C26: in a legacy binary the EIP of a StolenV1 entry is the VA of the byte
\* before the call site when that byte is 51, and the VA of the call site
\* otherwise, whether or not a finalize-CRC pattern matched in the stub.
C26_StolenV1Eip ==
    (pc = "classified" /\ data.CEG_OLD_VERSION # 0 /\ ev.site.next = "FFD0") =>
        {f.eip : f \in data.CEG_PROTECTED_STOLEN_FUNCS_v1}
            = {IF ev.site.prev = "51" THEN EipOf(0) - 1 ELSE EipOf(0)}

\* A call eax after a call that no push ecx precedes, its stub matching no
\* pattern, was recorded.
C26_Witness ==
    /\ pc = "classified"
    /\ data.CEG_OLD_VERSION # 0
    /\ ev.site.next = "FFD0"
    /\ ev.site.prev = "90"
    /\ ev.site.crc = {}
    /\ data.CEG_PROTECTED_STOLEN_FUNCS_v1 # {}


\* C27: with the constants LoadBinaryImage sets, a memory address of the
\* code section made an image VA and that VA made a memory address is the
\* address it was, and an image VA of the code section made a memory address
\* and that address made an image VA is the VA it was, in arithmetic that
\* wraps around at 32 bits.
C27_AddressRoundTrip ==
    ev.kind \in {"real", "memory"} => ev.back = ev.from

\* The sum of image base and virtual address wrapped around, and a VA of the
\* code section went to memory and back.
C27_Witness ==
    /\ ev.kind = "memory"
    /\ data.CEG_IMAGEBASE_RAW = <<65535, 61440>>
    /\ data.CEG_CODE_BASE[1] = 0
    /\ ev.from # ev.to
    /\ ev.from = Add32(data.CEG_CODE_BASE, <<1, 4464>>)

\* Every address the recipe j records, with the patch it asks for.
RecordedPatches(j) ==
    (IF "Init" \in j.has THEN {PatchInfo(j.Init, j.Init, 0, <<>>)} ELSE {})
    \cup (IF "Terminate" \in j.has
          THEN {PatchInfo(j.Terminate, j.Terminate, 0, <<>>)} ELSE {})
    \cup (IF "ConstantOrStolen" \in j.has
          THEN {PatchInfo(j.ConstantOrStolen[i].key, j.ConstantOrStolen[i].Prologue,
                          IF "Type" \in j.ConstantOrStolen[i].has
                          THEN j.ConstantOrStolen[i].Type ELSE 0,
                          IF "Value" \in j.ConstantOrStolen[i].has
                          THEN j.ConstantOrStolen[i].Value ELSE <<>>) :
                  i \in DOMAIN j.ConstantOrStolen}
          ELSE {})
    \cup (IF "Integrity" \in j.has
          THEN {PatchInfo(j.Integrity[i], j.Integrity[i], 0, <<>>) :
                  i \in DOMAIN j.Integrity}
          ELSE {})
    \cup (IF "TestSecret" \in j.has
          THEN {PatchInfo(j.TestSecret[i], j.TestSecret[i], 0, <<>>) :
                  i \in DOMAIN j.TestSecret}
          ELSE {})

\* Does buf hold the patch of info at the offset its Prologue resolves to?
Carries(buf, info) ==
    LET offset == PatchOffset(OrigFile, PatcherImageBase, info)
        bytes == PatchBytes(info, StringToNumber(info.m_Prologue))
    IN \A k \in 1..Len(bytes) : buf[offset + (k - 1)] = bytes[k]

\* C28: the output file carries, for every address the recipe records (every
\* ConstantOrStolen entry, also those that share their key, Init, Terminate,
\* every Integrity and TestSecret address) whose Prologue resolves to an
\* acceptable file offset, that entry's patch bytes at that offset.
C28_EveryRecordedAddressPatched ==
    pc = "exit0" =>
        \A info \in RecordedPatches(disk) :
            PatchOffset(OrigFile, PatcherImageBase, info) # 0
                => Carries(file, info)

\* The file offset the Prologue of info resolves to, 0 when no section
\* holds it.
ResolvedOffset(info) ==
    AsNat(RvaToOffset(Sub32(StringToNumber(info.m_Prologue), PatcherImageBase)))

\* C29: a patch whose Prologue resolves to file offset 0 or to one of the
\* last five offsets of the buffer is skipped and leaves the buffer as it
\* was; every byte ApplyPatches writes lies inside the buffer; and the
\* buffer, and the file saved from it, keep the length of the input file.
C29_WriteSafety ==
    /\ ev.kind = "apply" =>
          /\ ev.written \subseteq DOMAIN ev.before
          /\ \A o \in DOMAIN ev.before \ ev.written : mem[o] = ev.before[o]
          /\ \A info \in data.patches :
                (\/ ResolvedOffset(info) = 0
                 \/ ResolvedOffset(info) >= FileSize - 5) =>
                    \A o \in DOMAIN mem :
                        (o >= ResolvedOffset(info) /\ o <= ResolvedOffset(info) + 5)
                            => mem[o] = ev.before[o]
    /\ pc \in {"read", "valid", "parsed", "applied", "exit0"} =>
          DOMAIN mem = 0..(FileSize - 1)
    /\ pc = "exit0" => DOMAIN file = 0..(FileSize - 1)

\* A jump whose Prologue resolves to the fifth offset from the end was
\* skipped while another patch was written.
C29_Witness ==
    /\ ev.kind = "apply"
    /\ ev.written # {}
    /\ \E info \in data.patches :
          /\ info.m_Prologue = FormatAddress32(NearEnd)
          /\ info.m_Type = 4
          /\ ResolvedOffset(info) = FileSize - 5

\* The std::int32_t, modulo 2^32, that four bytes spell lowest first.
FromLittleEndian(b0, b1, b2, b3) == <<b3 * 256 + b2, b1 * 256 + b0>>

\* C30: after a patch of type 4 was applied at the Prologue P with the Value
\* V, the file holds E9 at the offset of P and then four bytes that, read
\* lowest first as a 32-bit integer rel, give rel + P + 5 = V modulo 2^32.
C30_RelativeJump ==
    ev.kind = "apply" =>
        \A info \in data.patches :
            (info.m_Type = 4 /\ PatchOffset(ev.before, data.m_ImageBase, info) # 0) =>
                LET o == PatchOffset(ev.before, data.m_ImageBase, info)
                    rel == FromLittleEndian(mem[o + 1], mem[o + 2],
                                            mem[o + 3], mem[o + 4])
                IN /\ mem[o] = 233
                   /\ Add32(Add32(rel, StringToNumber(info.m_Prologue)), U32(5))
                        = StringToNumber(info.m_Value)

\* A jump backwards, to 00001000, was written: its displacement is negative.
C30_Witness ==
    /\ ev.kind = "apply"
    /\ \E info \in data.patches :
          /\ info.m_Type = 4
          /\ info.m_Value = <<"0","x","0","0","0","0","1","0","0","0">>
          /\ ResolvedOffset(info) \in ev.written
          /\ mem[ResolvedOffset(info) + 4] = 255

\* What a patch alone does to the buffer the loop started on.
Alone(info) == ApplyPatches(ev.before, data.m_ImageBase, {info})

\* The offsets at which two buffers of one length differ.
Changed(before, after) == {o \in DOMAIN before : after[o] # before[o]}

\* C31: a patch of type 0 writes the three bytes B0 01 C3 at its offset
\* whatever its Value, also when the entry held nothing but a Prologue; a
\* patch of type 1, 2 or 3 writes the six bytes B8, the four bytes of its
\* Value lowest first, C3; and the patch changes no byte elsewhere.
C31_PatchTemplates ==
    ev.kind = "apply" =>
        \A info \in data.patches :
            (info.m_Type \in 0..3
             /\ PatchOffset(ev.before, data.m_ImageBase, info) # 0) =>
                LET o == PatchOffset(ev.before, data.m_ImageBase, info)
                    after == Alone(info).buf
                    value == StringToNumber(info.m_Value)
                    template ==
                        IF info.m_Type = 0 THEN <<176, 1, 195>>
                        ELSE <<184, value[2] % 256, value[2] \div 256,
                               value[1] % 256, value[1] \div 256, 195>>
                IN /\ DOMAIN after = DOMAIN ev.before
                   /\ \A k \in 1..Len(template) : after[o + (k - 1)] = template[k]
                   /\ Changed(ev.before, after) \subseteq
                         {o + (k - 1) : k \in 1..Len(template)}
                   /\ Alone(info).written = {o + (k - 1) : k \in 1..Len(template)}

\* An entry that held nothing but a Prologue was applied, and so was a patch
\* of type 3 with a Value.
C31_Witness ==
    /\ ev.kind = "apply"
    /\ \E info \in data.patches :
          /\ info.m_Value = <<>>
          /\ info.address = FormatAddress(FuncOf(0))
          /\ PatchOffset(ev.before, data.m_ImageBase, info) \in ev.written
    /\ \E info \in data.patches :
          /\ info.m_Type = 3
          /\ info.m_Value = DoneValue
          /\ PatchOffset(ev.before, data.m_ImageBase, info) \in ev.written

C33_NoPartialResults ==
    (ev.kind = "load" /\ ev.error # "none") => data = ev.before


\* The state of the extractor that a declining handler leaves alone.
HandlerState ==
    <<json, m_Instance, m_CurrentIndex, m_TargetAddress, m_EipAddress,
      m_RegisterThreadAddress, bp, mem, m_ShouldRestart, m_Context, disk>>

\* A step of the handler: an exception is pending and the step is neither one
\* of the previous process of a restart, which runs beside this one, nor a
\* switch to the other thread.
HandlerStep == pc = "raised" /\ old' = old /\ thr' = thr

Declines == ev'.kind = "decline" /\ pc' = "declined" /\ UNCHANGED HandlerState

Continues == pc' = "running"

(* C34: the decision of the handler for every exception and state: no live *)
(* instance - decline; custom code - continue; single-step - continue,     *)
(* with the trap flag cleared exactly when EIP is the target address;      *)
(* breakpoint - capture exactly when a breakpoint is armed and EIP is its  *)
(* address, otherwise decline and change nothing; illegal instruction -    *)
(* exit when the restart flag is set, otherwise decline; any other code -  *)
(* decline and change nothing.                                             *)
C34_HandlerDecisionTable ==
    [][ HandlerStep =>
          IF ~m_Instance THEN Declines
          ELSE IF exc.code = CUSTOM_HANDLED THEN Continues
          ELSE IF exc.code = EXCEPTION_SINGLE_STEP
          THEN /\ Continues
               /\ ev'.ctxOut.TF =
                    (exc.ctx.TF /\ exc.ctx.Eip # m_TargetAddress)
          ELSE IF exc.code = EXCEPTION_BREAKPOINT
          THEN IF bp.m_IsSet /\ exc.ctx.Eip = bp.m_Address
               THEN ev'.kind \in {"capture", "captureNone", "captureAbort"}
               ELSE Declines
          ELSE IF exc.code = EXCEPTION_ILLEGAL_INSTRUCTION
          THEN IF m_ShouldRestart THEN pc' = "dead" ELSE Declines
          ELSE Declines ]_vars


\* The entry the loop stands at.
CurrentEntry == json.ConstantOrStolen[m_CurrentIndex]

(* C35: whenever the loop has raised its exception for the entry at the    *)
(* current index, a breakpoint is armed, its address is that entry's BP,   *)
(* and the target address and the eip redirect are that entry's function   *)
(* address and EIP.                                                        *)
C35_RaiseOnlyWithOwnBreakpoint ==
    (pc = "raised" /\ exc.src = "loop") =>
        /\ ev.raisedAt = m_CurrentIndex
        /\ bp.m_IsSet
        /\ GetAddress(bp) = Stoull16(CurrentEntry.BP)
        /\ mem[GetAddress(bp)] = INT3
        /\ m_TargetAddress = Stoull16(CurrentEntry.key)
        /\ m_EipAddress = Stoull16(CurrentEntry.EIP)


----------------------------------------------------------------------------
(* The scan loop of the analyzer *)

\* The longest instruction of the architecture, in bytes.
ZYDIS_MAX_INSTRUCTION_LENGTH == 15

\* The largest code data the scan is followed through.
MaxDataSize == 17

\* The offsets of n bytes of code data at which the bytes are chosen: the
\* first two, the last one and the two around the last offset that still has
\* a whole instruction length of data behind it.
MarkedOffsets(n) ==
    {0, 1, n - ZYDIS_MAX_INSTRUCTION_LENGTH,
     n - ZYDIS_MAX_INSTRUCTION_LENGTH + 1, n - 1} \cap (0 .. n - 1)

\* Code data: its size, the offsets at which no instruction decodes and the
\* offsets at which a call, a jump or a mov eax with an immediate operand
\* decodes; at every other offset some other instruction decodes.  offset
\* is the local of the scan loop.
CodeOfSize(n) ==
    UNION { { [size |-> n, invalid |-> bad, targets |-> t, offset |-> 0] :
                t \in SUBSET (MarkedOffsets(n) \ bad) } :
            bad \in SUBSET MarkedOffsets(n) }

CodeData == UNION { CodeOfSize(n) : n \in 0 .. MaxDataSize }

\* ZydisDecoderDecodeFull at an offset, and IsTargetInstruction.
Decodes(d, offset) == offset \notin d.invalid

IsTargetInstruction(d, offset) == offset \in d.targets

\* A ProcessInstruction that moves on to the end of the instruction it
\* decoded, the five bytes of a call with an immediate operand.
ProcessInstruction_SkipsInstruction(d, offset) ==
    IF offset + ZYDIS_MAX_INSTRUCTION_LENGTH > d.size
    THEN [ok |-> FALSE, offset |-> offset, examined |-> FALSE]
    ELSE IF ~Decodes(d, offset)
    THEN [ok |-> FALSE, offset |-> offset, examined |-> FALSE]
    ELSE [ok |-> TRUE,
          offset |-> IF IsTargetInstruction(d, offset) THEN offset + 5
                     ELSE offset + 1,
          examined |-> IsTargetInstruction(d, offset)]

\* InstructionAnalyzer::ProcessInstruction: what it returns, the offset it
\* leaves and whether ProcessTargetInstruction was called.
ProcessInstruction(d, offset) ==
    IF offset + ZYDIS_MAX_INSTRUCTION_LENGTH > d.size
    THEN [ok |-> FALSE, offset |-> offset, examined |-> FALSE]
    ELSE IF ~Decodes(d, offset)
    THEN [ok |-> FALSE, offset |-> offset, examined |-> FALSE]
    ELSE [ok |-> TRUE, offset |-> offset + 1,
          examined |-> IsTargetInstruction(d, offset)]

\* gh keeps the offsets the loop stood at, in order, and the offsets at
\* which ProcessTargetInstruction was called.
NoScan == [visited |-> <<>>, examined |-> {}]

ScanFrame ==
    UNCHANGED <<disk, old, json, m_Instance, m_CurrentIndex, m_TargetAddress,
                m_EipAddress, m_RegisterThreadAddress, bp, mem,
                m_ShouldRestart, m_Context, cpu, exc, thr, file>>

InitScan ==
    /\ disk = NullJson
    /\ file = <<>>
    /\ old = "none"
    /\ pc = "scan"
    /\ json = NullJson
    /\ m_Instance = FALSE
    /\ m_CurrentIndex = 0
    /\ m_TargetAddress = 0
    /\ m_EipAddress = 0
    /\ m_RegisterThreadAddress = 0
    /\ bp = NoBreakpoint
    /\ mem = FreshMem
    /\ m_ShouldRestart = FALSE
    /\ m_Context = NoSaved
    /\ cpu = NoContext
    /\ exc = NoExc
    /\ ev = [kind |-> "none", offset |-> 0]
    /\ gh = NoScan
    /\ thr = OneThread
    /\ data \in CodeData

\* One iteration of the while loop of AnalyzeCEGProtectedFunctions.
ScanIteration ==
    /\ pc = "scan"
    /\ data.offset < data.size
    /\ LET r == ProcessInstruction(data, data.offset)
       IN /\ data' = [data EXCEPT !.offset = IF r.ok THEN r.offset
                                            ELSE r.offset + 1]
          /\ gh' = [visited  |-> Append(gh.visited, data.offset),
                    examined |-> IF r.examined
                                 THEN gh.examined \cup {data.offset}
                                 ELSE gh.examined]
    /\ ev' = [kind |-> "iteration", offset |-> data.offset]
    /\ UNCHANGED pc
    /\ ScanFrame

\* The loop condition fails: return true.
ScanReturns ==
    /\ pc = "scan"
    /\ ~(data.offset < data.size)
    /\ pc' = "scanned"
    /\ ev' = [kind |-> "return", offset |-> data.offset]
    /\ UNCHANGED <<data, gh>>
    /\ ScanFrame

NextScan ==
    \/ ScanIteration
    \/ ScanReturns

SpecScan == InitScan /\ [][NextScan]_vars

\* The offsets of the data that have a whole instruction length behind them.
FullLengthOffsets(d) ==
    {o \in 0 .. d.size - 1 : o + ZYDIS_MAX_INSTRUCTION_LENGTH <= d.size}

(* C36: every iteration of the scan loop stands one byte after the one     *)
(* before, whether or not an instruction decodes or matches at the offset; *)
(* when the loop returns it has stood at each offset of the data exactly   *)
(* once, in order, and it has examined the call site at every offset that  *)
(* has 15 bytes of data left and at no other offset.                       *)
C36_ScanVisitsEveryOffsetOnce ==
    /\ Len(gh.visited) <= data.size
    /\ \A k \in 1 .. Len(gh.visited) : gh.visited[k] = k - 1
    /\ data.offset = Len(gh.visited)
    /\ pc = "scanned" =>
         /\ Len(gh.visited) = data.size
         /\ gh.examined = data.targets \cap FullLengthOffsets(data)

\* The loop has returned from data where it met an offset without an
\* instruction, an instruction of no interest, a call site it examined and a
\* call site in the last bytes that it did not examine.
C36_Witness ==
    /\ pc = "scanned"
    /\ data.invalid \cap FullLengthOffsets(data) # {}
    /\ gh.examined # {}
    /\ data.targets \ gh.examined # {}
    /\ FullLengthOffsets(data) \ (data.invalid \cup data.targets) # {}


----------------------------------------------------------------------------
(* The search for the prologue of the calling function *)

\* How far into the code section the call site lies.
CallOffsets == {5, 100, CEG_SCAN_SIZE, CEG_SCAN_SIZE + 1, 4096}

\* Where before a call site push ebp; mov ebp, esp may stand: at the start
\* of the section, around the far end of the scan, and close by.
PushOffsets(call_offset) ==
    {0, 1, call_offset - CEG_SCAN_SIZE, call_offset - CEG_SCAN_SIZE + 1,
     call_offset - 64, call_offset - 1} \cap (0 .. call_offset - 1)

\* Call sites of a modern binary that reach the StolenV3 branch: a call to
\* a stub with a finalize-CRC match, followed by a nop.
PrologueSites ==
    UNION { { [call_offset |-> co,
               site |-> [target |-> MemoryOf(FuncOf(0)), next |-> "90",
                         cur |-> "E8", prev |-> "90", crc |-> {1},
                         pushes |-> p]] :
                p \in SUBSET PushOffsets(co) } : co \in CallOffsets }

\* Here ev holds the call site the scan has reached and how far into the
\* section it lies; pc is "site" before and "located" after.
InitPrologue ==
    /\ disk = NullJson
    /\ file = <<>>
    /\ old = "none"
    /\ pc = "site"
    /\ json = NullJson
    /\ m_Instance = FALSE
    /\ m_CurrentIndex = 0
    /\ m_TargetAddress = 0
    /\ m_EipAddress = 0
    /\ m_RegisterThreadAddress = 0
    /\ bp = NoBreakpoint
    /\ mem = FreshMem
    /\ m_ShouldRestart = FALSE
    /\ m_Context = NoSaved
    /\ cpu = NoContext
    /\ exc = NoExc
    /\ ev \in {[kind |-> "site", at |-> s] : s \in PrologueSites}
    /\ gh = NoGh
    /\ thr = OneThread
    /\ data = NoData

\* ProcessTargetInstruction finds the target among the protected functions
\* and calls ProcessProtectedFunction for the call site.
LocatePrologue ==
    /\ pc = "site"
    /\ data' = ProcessProtectedFunction(data,
                   SectionStart + ev.at.call_offset, ev.at.site.target,
                   ev.at.site, ev.at.call_offset)
    /\ pc' = "located"
    /\ ev' = [kind |-> "locate", at |-> ev.at]
    /\ UNCHANGED disk
    /\ AnalyzerFrame

NextPrologue == LocatePrologue

SpecPrologue == InitPrologue /\ [][NextPrologue]_vars

\* The offsets before the call site, fewer than CEG_SCAN_SIZE bytes away, at
\* which push ebp; mov ebp, esp stands.
ProloguesInWindow(at) ==
    {o \in at.site.pushes :
        o < at.call_offset /\ at.call_offset - o < CEG_SCAN_SIZE}

(* C37: the StolenV3 record of a call site carries as prologue the VA of   *)
(* the nearest offset before the call site, within 300 bytes of it, at     *)
(* which push ebp is immediately followed by mov ebp, esp, and the VA of   *)
(* the stub when there is no such offset in that window.                   *)
C37_PrologueLocation ==
    pc = "located" =>
        LET found == ProloguesInWindow(ev.at)
            nearest == CHOOSE o \in found : \A q \in found : q <= o
        IN data.CEG_PROTECTED_STOLEN_FUNCS_v3 =
             {[func |-> FuncOf(0),
               prologue |-> IF found = {} THEN FuncOf(0)
                            ELSE CEG_CODE_BASE + nearest,
               eip |-> CEG_CODE_BASE + ev.at.call_offset,
               bp |-> CalculateRealAddress(SectionStart,
                         CrcHit(ev.at.site.target, 1) + FINALIZE_CRC_OFFSETS[1])]}


----------------------------------------------------------------------------
(* ProcessManager::SelfRestart and the named mutex, step by step *)

\* How often RestartApp is entered in the process that is followed.
MaxRestarts == 3

\* The mutex Global\NoCEG: who owns it ("none", "self": the process that is
\* followed, "other": another process of the program), how often the owner
\* acquired it, and whether its last owner ended without releasing it.
FreeMutex == [owner |-> "none", count |-> 0, abandoned |-> FALSE]

\* WaitForSingleObject( mtx, 0 ) of the process that is followed.
WaitForSingleObject(m) ==
    IF m.owner = "other" THEN [res |-> "WAIT_TIMEOUT", mutex |-> m]
    ELSE IF m.owner = "self"
    THEN [res |-> "WAIT_OBJECT_0", mutex |-> [m EXCEPT !.count = @ + 1]]
    ELSE [res |-> IF m.abandoned THEN "WAIT_ABANDONED" ELSE "WAIT_OBJECT_0",
          mutex |-> [owner |-> "self", count |-> 1, abandoned |-> FALSE]]

\* ReleaseMutex of the process that is followed; it fails for a mutex the
\* caller does not own.
ReleaseMutex(m) ==
    IF m.owner # "self" THEN [ok |-> FALSE, mutex |-> m]
    ELSE [ok |-> TRUE,
          mutex |-> IF m.count = 1 THEN FreeMutex
                    ELSE [m EXCEPT !.count = @ - 1]]

\* gh of this specification: the calls of SelfRestart so far; whether the
\* wait of the current call gave the caller the mutex; whether the current
\* call released it; whether any call released a mutex it did not own.
NoRestart == [calls |-> 0, acquired |-> FALSE, released |-> FALSE,
              releasedUnowned |-> FALSE]

Released(g, r) ==
    [g EXCEPT !.released = @ \/ r.ok,
              !.releasedUnowned = @ \/ ~r.ok]

RestartFrame ==
    UNCHANGED <<disk, old, json, m_Instance, m_CurrentIndex, m_TargetAddress,
                m_EipAddress, m_RegisterThreadAddress, bp, mem,
                m_ShouldRestart, m_Context, cpu, exc, thr, file>>

\* data is the mutex; pc is "idle" outside SelfRestart, "created" after
\* CreateMutexA, "owned" after the wait, "named" after GetModuleFileNameA,
\* "spawned" after CreateProcessA and "returned" when SelfRestart is left.
InitRestart ==
    /\ disk = NullJson
    /\ file = <<>>
    /\ old = "none"
    /\ pc = "idle"
    /\ json = NullJson
    /\ m_Instance = FALSE
    /\ m_CurrentIndex = 0
    /\ m_TargetAddress = 0
    /\ m_EipAddress = 0
    /\ m_RegisterThreadAddress = 0
    /\ bp = NoBreakpoint
    /\ mem = FreshMem
    /\ m_ShouldRestart = FALSE
    /\ m_Context = NoSaved
    /\ cpu = NoContext
    /\ exc = NoExc
    /\ ev = [kind |-> "none", result |-> "none"]
    /\ gh = NoRestart
    /\ thr = OneThread
    /\ data = FreeMutex

\* process.h 76-78: CreateMutexA creates or opens the mutex.
CreateMutexA(ok) ==
    /\ pc = "idle"
    /\ gh.calls < MaxRestarts
    /\ pc' = IF ok THEN "created" ELSE "returned"
    /\ gh' = [gh EXCEPT !.calls = @ + 1, !.acquired = FALSE,
                        !.released = FALSE]
    /\ ev' = [kind |-> "create",
              result |-> IF ok THEN "none" ELSE "MutexCreateFailed"]
    /\ UNCHANGED data
    /\ RestartFrame

\* process.h 82-86: the wait with a timeout of zero and the test of what it
\* returned.
WaitForMutex ==
    /\ pc = "created"
    /\ LET w == WaitForSingleObject(data)
       IN /\ data' = w.mutex
          /\ gh' = [gh EXCEPT !.acquired =
                       w.res \in {"WAIT_OBJECT_0", "WAIT_ABANDONED"}]
          /\ pc' = IF w.res # "WAIT_OBJECT_0" THEN "returned" ELSE "owned"
          /\ ev' = [kind |-> "wait",
                    result |-> IF w.res # "WAIT_OBJECT_0"
                               THEN "MutexCreateFailed" ELSE "none"]
    /\ RestartFrame

\* process.h 89-94
GetModuleFileNameA(ok) ==
    /\ pc = "owned"
    /\ IF ok
       THEN /\ pc' = "named"
            /\ UNCHANGED <<data, gh>>
            /\ ev' = [kind |-> "name", result |-> "none"]
       ELSE LET r == ReleaseMutex(data)
            IN /\ data' = r.mutex
               /\ gh' = Released(gh, r)
               /\ pc' = "returned"
               /\ ev' = [kind |-> "name", result |-> "GetModuleNameFailed"]
    /\ RestartFrame

\* process.h 100-106
CreateProcessA(ok) ==
    /\ pc = "named"
    /\ IF ok
       THEN /\ pc' = "spawned"
            /\ UNCHANGED <<data, gh>>
            /\ ev' = [kind |-> "spawn", result |-> "none"]
       ELSE LET r == ReleaseMutex(data)
            IN /\ data' = r.mutex
               /\ gh' = Released(gh, r)
               /\ pc' = "returned"
               /\ ev' = [kind |-> "spawn", result |-> "CreateProcessFailed"]
    /\ RestartFrame

\* process.h 108-114: the release after the spawn, and return {}.
ReleaseAfterSpawn ==
    /\ pc = "spawned"
    /\ LET r == ReleaseMutex(data)
       IN /\ data' = r.mutex
          /\ gh' = Released(gh, r)
    /\ pc' = "returned"
    /\ ev' = [kind |-> "release", result |-> "Success"]
    /\ RestartFrame

\* RestartApp returns and the process goes on until it is entered again.
RestartAppReturns ==
    /\ pc = "returned"
    /\ pc' = "idle"
    /\ ev' = [kind |-> "return", result |-> ev.result]
    /\ UNCHANGED <<data, gh>>
    /\ RestartFrame

\* Another process of the program (its SelfRestart, or GetCEGMutex in a
\* process that was spawned) acquires the free mutex.
OtherAcquires ==
    /\ data.owner = "none"
    /\ data' = [owner |-> "other", count |-> 1, abandoned |-> FALSE]
    /\ ev' = [kind |-> "otherAcquires", result |-> ev.result]
    /\ UNCHANGED <<pc, gh>>
    /\ RestartFrame

\* The other process releases the mutex, or ends while it owns it (ended
\* is TRUE): the mutex is free and abandoned.
OtherLetsGo(ended) ==
    /\ data.owner = "other"
    /\ data' = [FreeMutex EXCEPT !.abandoned = ended]
    /\ ev' = [kind |-> "otherLetsGo", result |-> ev.result]
    /\ UNCHANGED <<pc, gh>>
    /\ RestartFrame

NextRestart ==
    \/ \E ok \in BOOLEAN : CreateMutexA(ok)
    \/ WaitForMutex
    \/ \E ok \in BOOLEAN : GetModuleFileNameA(ok)
    \/ \E ok \in BOOLEAN : CreateProcessA(ok)
    \/ ReleaseAfterSpawn
    \/ RestartAppReturns
    \/ OtherAcquires
    \/ \E ended \in BOOLEAN : OtherLetsGo(ended)

SpecRestart == InitRestart /\ [][NextRestart]_vars

(* C38: when SelfRestart returns, it has released the mutex if its wait    *)
(* gave it the ownership (also that of an abandoned mutex), it has never   *)
(* released a mutex it did not own, and the calling process does not hold  *)
(* the mutex.                                                              *)
C38_SelfRestartReleasesTheMutex ==
    /\ ~gh.releasedUnowned
    /\ pc = "returned" =>
         /\ gh.acquired => gh.released
         /\ data.owner # "self"

====
